---- MODULE Spec2Model ----
(***************************************************************************)
(* Model of the TaskFlow ordered-collection engine:                        *)
(*   - the task table (listId, position) and the task routes that change   *)
(*     it (create, delete, move), one action per awaited database call;    *)
(*   - the lists table and the list routes, one action per handler;        *)
(*   - the Socket.IO board rooms and emitBoardEvent;                       *)
(*   - the board store of one browser tab: fetchBoard, the optimistic      *)
(*     move of handleDragEnd and the handlers of the broadcast events.     *)
(* Source: server/src/routes/activity.routes.ts (task and list routes),    *)
(*         server/src/routes/board.routes.ts (GET /:id),                   *)
(*         server/src/utils/jwt.ts (socket.ts part),                       *)
(*         client/src/stores/boardStore.ts,                                *)
(*         client/src/pages/SignupPage.tsx (BoardPage),                    *)
(*         unnamed/part_002 (DndBoardWrapper).                             *)
(***************************************************************************)
EXTENDS Integers, Sequences, FiniteSets, TLC

\* ---------------------------------------------------------------- universe
Tasks   == {"T1", "T2", "T3"}
Lists   == {"Backlog", "Done", "Archive"}
Boards  == {"B1", "B2"}
Users   == {"alice", "bob"}
Sockets == {"s1", "s2"}
Slots   == {"r1", "r2"}

NoList == "none"       \* the row does not exist
NoPos  == 0 - 1        \* req.body.position === undefined

\* bounds
MaxPos  == 3           \* largest position a request body carries
MaxReqs == 2           \* requests started in one behaviour
MaxSteps == 1          \* events and local moves applied to a board store

\* lists.board_id: Backlog and Done are lists of B1, Archive of B2
listBoard(l) == IF l = "Archive" THEN "B2" ELSE "B1"

VARIABLES
  tasks,       \* tasks table: [Tasks -> [listId, position]]
  req,         \* the request handlers in flight, one per slot
  activities,  \* activities table: the number of rows written
  rooms,       \* Socket.IO rooms: rooms[s] = boards whose room s has joined
  inbox,       \* events delivered to each socket, in delivery order
  nreq,        \* number of requests started
  lpos,        \* lists table: lpos[l] = position of list l, NoPos when no row
  view,        \* the board store and BoardPage of one browser tab
  boardRows    \* boards and board_members tables: [ownerId, members]

vars == <<tasks, req, activities, rooms, inbox, nreq, lpos, view, boardRows>>

\* ------------------------------------------------- boards and memberships
NoUser == "none"       \* the board has no row
NoRole == "none"       \* the user has no board_members row for the board

Roles == {"OWNER", "ADMIN", "MEMBER"}

\* the boards of the task and list routes: alice created B1, bob created B2
\* and added alice to it as MEMBER; bob has no access to B1
InitBoards ==
  [b \in Boards |->
     IF b = "B1"
     THEN [ownerId |-> "alice",
           members |-> [u \in Users |-> IF u = "alice" THEN "OWNER" ELSE NoRole]]
     ELSE [ownerId |-> "bob",
           members |-> [u \in Users |-> IF u = "bob" THEN "OWNER" ELSE "MEMBER"]]]

\* OR: [{ ownerId: userId }, { members: { some: { userId } } }]
boardUsers(b) ==
  {u \in Users : boardRows[b].ownerId = u \/ boardRows[b].members[u] # NoRole}

\* ------------------------------------------------------------ pure helpers
Row(l, p) == [listId |-> l, position |-> p]

Exists(ts, t) == ts[t].listId # NoList

TasksIn(ts, l) == {t \in Tasks : ts[t].listId = l}

Range(s) == {s[i] : i \in 1..Len(s)}

\* the access check without the owner/member condition
verifyBoardAccessAnyUser(b, u) == u \in Users

\* verifyBoardAccess(boardId, userId): board row or null
verifyBoardAccess(b, u) == u \in boardUsers(b)

\* prisma.task.findFirst({ where: { id, list: { boardId } } })
taskInBoard(ts, t, b) == Exists(ts, t) /\ listBoard(ts[t].listId) = b

\* prisma.list.findFirst({ where: { id, boardId } })
listInBoard(l, b) == l \in Lists /\ listBoard(l) = b /\ lpos[l] # NoPos

\* the shift with position: { gt } in place of { gte }
updateManyShiftGt(ts, l, p) ==
  [t \in Tasks |->
     IF ts[t].listId = l /\ ts[t].position > p
     THEN Row(l, ts[t].position + 1)
     ELSE ts[t]]

\* the shift without listId in its where
updateManyShiftAnyList(ts, l, p) ==
  [t \in Tasks |->
     IF Exists(ts, t) /\ ts[t].position >= p
     THEN Row(ts[t].listId, ts[t].position + 1)
     ELSE ts[t]]

\* prisma.task.updateMany({ where: { listId, position: { gte } },
\*                          data: { position: { increment: 1 } } })
updateManyShift(ts, l, p) ==
  [t \in Tasks |->
     IF ts[t].listId = l /\ ts[t].position >= p
     THEN Row(l, ts[t].position + 1)
     ELSE ts[t]]

\* the update writing the position without the listId
taskUpdateKeepList(ts, t, l, p) == [ts EXCEPT ![t] = Row(ts[t].listId, p)]

\* prisma.task.update({ where: { id }, data: { listId, position } })
taskUpdate(ts, t, l, p) == [ts EXCEPT ![t] = Row(l, p)]

\* prisma.task.findMany({ where: { listId }, orderBy: { position: "asc" } }):
\* every ordering of the list's rows by ascending position; rows with equal
\* positions come in an order the database chooses
findManyAsc(ts, l) ==
  LET S == TasksIn(ts, l)
      n == Cardinality(S)
  IN  {s \in [1..n -> S] :
         /\ \A i, j \in 1..n : i # j => s[i] # s[j]
         /\ \A i, j \in 1..n : i < j => ts[s[i]].position <= ts[s[j]].position}

\* prisma.$transaction(sourceTasks.map((t, idx) =>
\*     prisma.task.update({ where: { id: t.id }, data: { position: idx } })))
reindex(ts, src) ==
  [t \in Tasks |->
     IF \E i \in 1..Len(src) : src[i] = t
     THEN Row(ts[t].listId, (CHOOSE i \in 1..Len(src) : src[i] = t) - 1)
     ELSE ts[t]]

\* the position taken from the number of tasks of the list
appendPositionCount(ts, l) == Cardinality(TasksIn(ts, l))

\* prisma.task.findFirst({ where: { listId }, orderBy: { position: "desc" } })
\* then lastTask ? lastTask.position + 1 : 0
appendPosition(ts, l) ==
  IF TasksIn(ts, l) = {} THEN 0
  ELSE (CHOOSE m \in {ts[t].position : t \in TasksIn(ts, l)} :
          \A t \in TasksIn(ts, l) : ts[t].position <= m) + 1

\* io.emit without the room: every socket that is in some room
RoomMembersAll(rm, b) == {s \in Sockets : rm[s] # {}}

\* io.to(`board:${boardId}`): the sockets that joined the room
RoomMembers(rm, b) == {s \in Sockets : b \in rm[s]}

\* ---------------------------------------------------------- request state
IdleReq ==
  [pc |-> "idle", kind |-> "none", id |-> 0, user |-> "none", boardId |-> "none",
   taskId |-> "none", targetListId |-> NoList, position |-> NoPos,
   fromListId |-> NoList, sourceTasks |-> << >>, moved |-> Row(NoList, NoPos),
   status |-> 0, pre |-> [t \in Tasks |-> Row(NoList, NoPos)],
   logged |-> FALSE, emitted |-> FALSE,
   committed |-> FALSE, after |-> {}]

Busy(r) == req[r].pc \notin {"idle", "done"}

\* history: the ids of the other moves whose last position write is done
CommittedMoves(r) == {req[q].id : q \in {x \in Slots \ {r} : req[x].committed}}

\* res.status(code).json(...): the handler returns
Respond(r, code) == [req EXCEPT ![r].pc = "done", ![r].status = code]

\* a request handler may start in slot r
CanStart(r, alone) ==
  /\ ~Busy(r)
  /\ nreq < MaxReqs
  /\ alone => \A q \in Slots : ~Busy(q)

NewReq(kind, u, b, t, l, p) ==
  [IdleReq EXCEPT !.kind = kind, !.id = nreq + 1, !.user = u, !.boardId = b,
                  !.taskId = t, !.targetListId = l, !.position = p,
                  !.pre = tasks]

\* emitBoardEvent(boardId, event, data)
Event(name, type, r, from, to, p, task) ==
  [name |-> name, type |-> type, boardId |-> req[r].boardId,
   taskId |-> req[r].taskId, fromListId |-> from, toListId |-> to,
   position |-> p, task |-> task, tasks |-> << >>, req |-> req[r].id]

emitBoardEvent(b, ev) ==
  inbox' = [s \in Sockets |->
              IF s \in RoomMembers(rooms, b) THEN Append(inbox[s], ev)
              ELSE inbox[s]]

\* prisma.activity.create
activityCreate ==
  activities' = activities + 1

\* ------------------------------------------------- PUT /:taskId/move
\* validation: verifyBoardAccess, task.findFirst, list.findFirst; then
\* const fromListId = task.listId
MoveValidate(r, alone, u, b, t, l, p) ==
  /\ CanStart(r, alone)
  /\ nreq' = nreq + 1
  /\ LET q == NewReq("move", u, b, t, l, p) IN
       IF /\ verifyBoardAccess(b, u)
          /\ taskInBoard(tasks, t, b)
          /\ listInBoard(l, b)
       THEN req' = [req EXCEPT ![r] = [q EXCEPT !.pc = "m_shift",
                                                !.fromListId = tasks[t].listId]]
       ELSE req' = [req EXCEPT ![r] = [q EXCEPT !.pc = "done", !.status = 404]]
  /\ UNCHANGED <<boardRows, lpos, tasks, activities, rooms, inbox>>

\* the request of a client other than the modelled browser tab
MoveStart(r, alone, u, b, t, l, p) ==
  /\ MoveValidate(r, alone, u, b, t, l, p)
  /\ UNCHANGED view

\* "Shift positions in target list to make room"
MoveShift(r) ==
  /\ req[r].pc = "m_shift"
  /\ tasks' = updateManyShift(tasks, req[r].targetListId, req[r].position)
  /\ req' = [req EXCEPT ![r].pc = "m_update"]
  /\ UNCHANGED <<boardRows, lpos, view, activities, rooms, inbox, nreq>>

\* "Move the task": update throws when the row is gone
MoveUpdate(r) ==
  /\ req[r].pc = "m_update"
  /\ IF Exists(tasks, req[r].taskId)
     THEN /\ tasks' = taskUpdate(tasks, req[r].taskId,
                                 req[r].targetListId, req[r].position)
          /\ req' = [req EXCEPT ![r].pc = "m_find",
                                ![r].moved = tasks'[req[r].taskId]]
     ELSE /\ req' = Respond(r, 500)
          /\ UNCHANGED tasks
  /\ UNCHANGED <<boardRows, lpos, view, activities, rooms, inbox, nreq>>

\* "Reindex positions in the source list": the findMany
MoveFindSource(r) ==
  /\ req[r].pc = "m_find"
  /\ \E src \in findManyAsc(tasks, req[r].fromListId) :
       req' = [req EXCEPT ![r].pc = "m_reindex", ![r].sourceTasks = src]
  /\ UNCHANGED <<boardRows, lpos, view, tasks, activities, rooms, inbox, nreq>>

\* the $transaction of updates by id; it throws, changing nothing, when
\* one of the rows is gone
MoveReindex(r) ==
  /\ req[r].pc = "m_reindex"
  /\ IF \A i \in 1..Len(req[r].sourceTasks) : Exists(tasks, req[r].sourceTasks[i])
     THEN /\ tasks' = reindex(tasks, req[r].sourceTasks)
          /\ req' = [req EXCEPT ![r].pc = "m_activity",
                                ![r].committed = TRUE,
                                ![r].after = CommittedMoves(r)]
     ELSE /\ req' = Respond(r, 500)
          /\ UNCHANGED tasks
  /\ UNCHANGED <<boardRows, lpos, view, activities, rooms, inbox, nreq>>

\* prisma.activity.create({ type: "TASK_MOVED", ... })
MoveActivity(r) ==
  /\ req[r].pc = "m_activity"
  /\ activityCreate
  /\ req' = [req EXCEPT ![r].pc = "m_emit", ![r].logged = TRUE]
  /\ UNCHANGED <<boardRows, lpos, view, tasks, rooms, inbox, nreq>>

\* emitBoardEvent(boardId, "task:move", ...); res.json({ data: moved })
MoveEmit(r) ==
  /\ req[r].pc = "m_emit"
  /\ emitBoardEvent(req[r].boardId,
                    Event("task:move", "TASK_MOVED", r, req[r].fromListId,
                          req[r].targetListId, req[r].position, req[r].moved))
  /\ req' = [req EXCEPT ![r].pc = "done", ![r].status = 200,
                        ![r].emitted = TRUE]
  /\ UNCHANGED <<boardRows, lpos, view, tasks, activities, rooms, nreq>>

\* ------------------------------------------------- POST / (create a task)
\* validation: verifyBoardAccess, list.findFirst; position from the body
CreateStart(r, alone, u, b, l, p) ==
  /\ CanStart(r, alone)
  /\ nreq' = nreq + 1
  /\ LET q == NewReq("create", u, b, "none", l, p) IN
       IF verifyBoardAccess(b, u) /\ listInBoard(l, b)
       THEN req' = [req EXCEPT ![r] =
                      [q EXCEPT !.pc = IF p = NoPos THEN "c_last" ELSE "c_create"]]
       ELSE req' = [req EXCEPT ![r] = [q EXCEPT !.pc = "done", !.status = 404]]
  /\ UNCHANGED <<boardRows, lpos, view, tasks, activities, rooms, inbox>>

\* "Auto-calculate position if not provided"
CreateLast(r) ==
  /\ req[r].pc = "c_last"
  /\ req' = [req EXCEPT ![r].pc = "c_create",
                        ![r].position = appendPosition(tasks, req[r].targetListId)]
  /\ UNCHANGED <<boardRows, lpos, view, tasks, activities, rooms, inbox, nreq>>

\* prisma.task.create: the database generates a new id
CreateInsert(r) ==
  /\ req[r].pc = "c_create"
  /\ \E t \in Tasks :
       /\ ~Exists(tasks, t)
       /\ tasks' = [tasks EXCEPT ![t] = Row(req[r].targetListId, req[r].position)]
       /\ req' = [req EXCEPT ![r].pc = "c_activity", ![r].taskId = t,
                             ![r].moved = tasks'[t]]
  /\ UNCHANGED <<boardRows, lpos, view, activities, rooms, inbox, nreq>>

CreateActivity(r) ==
  /\ req[r].pc = "c_activity"
  /\ activityCreate
  /\ req' = [req EXCEPT ![r].pc = "c_emit", ![r].logged = TRUE]
  /\ UNCHANGED <<boardRows, lpos, view, tasks, rooms, inbox, nreq>>

CreateEmit(r) ==
  /\ req[r].pc = "c_emit"
  /\ emitBoardEvent(req[r].boardId,
                    Event("task:update", "TASK_CREATED", r, NoList,
                          req[r].targetListId, req[r].position, req[r].moved))
  /\ req' = [req EXCEPT ![r].pc = "done", ![r].status = 201,
                        ![r].emitted = TRUE]
  /\ UNCHANGED <<boardRows, lpos, view, tasks, activities, rooms, nreq>>

\* ------------------------------------------------- DELETE /:taskId
DeleteStart(r, alone, u, b, t) ==
  /\ CanStart(r, alone)
  /\ nreq' = nreq + 1
  /\ LET q == NewReq("delete", u, b, t, NoList, NoPos) IN
       IF verifyBoardAccess(b, u) /\ taskInBoard(tasks, t, b)
       THEN req' = [req EXCEPT ![r] = [q EXCEPT !.pc = "d_delete",
                                                !.fromListId = tasks[t].listId]]
       ELSE req' = [req EXCEPT ![r] = [q EXCEPT !.pc = "done", !.status = 404]]
  /\ UNCHANGED <<boardRows, lpos, view, tasks, activities, rooms, inbox>>

\* prisma.task.delete({ where: { id } }): throws when the row is gone
DeleteRow(r) ==
  /\ req[r].pc = "d_delete"
  /\ IF Exists(tasks, req[r].taskId)
     THEN /\ tasks' = [tasks EXCEPT ![req[r].taskId] = Row(NoList, NoPos)]
          /\ req' = [req EXCEPT ![r].pc = "d_activity"]
     ELSE /\ req' = Respond(r, 500)
          /\ UNCHANGED tasks
  /\ UNCHANGED <<boardRows, lpos, view, activities, rooms, inbox, nreq>>

DeleteActivity(r) ==
  /\ req[r].pc = "d_activity"
  /\ activityCreate
  /\ req' = [req EXCEPT ![r].pc = "d_emit", ![r].logged = TRUE]
  /\ UNCHANGED <<boardRows, lpos, view, tasks, rooms, inbox, nreq>>

DeleteEmit(r) ==
  /\ req[r].pc = "d_emit"
  /\ emitBoardEvent(req[r].boardId,
                    Event("task:update", "TASK_DELETED", r, req[r].fromListId,
                          NoList, NoPos, Row(req[r].fromListId, NoPos)))
  /\ req' = [req EXCEPT ![r].pc = "done", ![r].status = 200,
                        ![r].emitted = TRUE]
  /\ UNCHANGED <<boardRows, lpos, view, tasks, activities, rooms, nreq>>

\* ------------------------------------------------- a database call rejects
\* every awaited prisma call sits in the handler's try block: when it
\* rejects, the catch answers 500 and nothing that was written is undone
DbPcs == {"m_shift", "m_update", "m_find", "m_reindex", "m_activity"}

DbError(r) ==
  /\ req[r].pc \in DbPcs
  /\ req' = Respond(r, 500)
  /\ UNCHANGED <<boardRows, lpos, view, tasks, activities, rooms, inbox, nreq>>

\* ------------------------------------------------- Socket.IO rooms
\* socket.on("board:join", boardId => socket.join(`board:${boardId}`))
BoardJoin(s, b) ==
  /\ b \notin rooms[s]
  /\ rooms' = [rooms EXCEPT ![s] = @ \cup {b}]
  /\ UNCHANGED <<boardRows, lpos, view, tasks, req, activities, inbox, nreq>>

\* socket.on("board:leave", boardId => socket.leave(`board:${boardId}`))
BoardLeave(s, b) ==
  /\ b \in rooms[s]
  /\ rooms' = [rooms EXCEPT ![s] = @ \ {b}]
  /\ UNCHANGED <<boardRows, lpos, view, tasks, req, activities, inbox, nreq>>

\* socket.on("disconnect"): the socket leaves every room
Disconnect(s) ==
  /\ rooms[s] # {}
  /\ rooms' = [rooms EXCEPT ![s] = {}]
  /\ UNCHANGED <<boardRows, lpos, view, tasks, req, activities, inbox, nreq>>

\* ------------------------------------------------- initial states
TaskNo(t) == CHOOSE n \in 1..3 : <<"T1", "T2", "T3">>[n] = t

\* the table after the tasks were created, without explicit position, in
\* the order T1, T2, T3 in the lists given by a
Placed(a) ==
  [t \in Tasks |->
     IF a[t] = NoList THEN Row(NoList, NoPos)
     ELSE Row(a[t], Cardinality({x \in Tasks : a[x] = a[t] /\ TaskNo(x) < TaskNo(t)}))]

Placements ==
  {a \in [Tasks -> Lists \cup {NoList}] :
     a["T1"] # "Archive" /\ a["T2"] # "Archive"}

\* the lists table after the boards were set up: Backlog and Done were
\* created in this order on B1, Archive on B2
InitLists ==
  [l \in Lists |-> IF l = "Done" THEN 1 ELSE 0]

\* the board store before a board page is opened: activeBoard is null
ClosedView ==
  [page |-> "closed", loaded |-> FALSE, lists |-> << >>,
   fetch |-> "none", data |-> << >>, snap |-> 0, join |-> "none",
   handled |-> 0, drag |-> "idle", dragged |-> "none",
   to |-> NoList, pos |-> NoPos, steps |-> 0, link |-> "first",
   leave |-> "none"]

InitServer ==
  /\ req = [r \in Slots |-> IdleReq]
  /\ activities = 0
  /\ inbox = [s \in Sockets |-> << >>]
  /\ nreq = 0
  /\ lpos = InitLists
  /\ boardRows = InitBoards

InitCommon ==
  /\ InitServer
  /\ view = ClosedView

Init ==
  /\ tasks \in {Placed(a) : a \in Placements}
  /\ rooms = [s \in Sockets |-> {}]
  /\ InitCommon

\* ------------------------------------------------- one request at a time
Positions == 0..MaxPos
SeqSlot == "r1"
\* the caller of the requests handled one at a time: a member of both boards
SeqUsers == {"alice"}

SeqMoveStart ==
  \E u \in SeqUsers, b \in Boards, t \in Tasks, l \in Lists, p \in Positions :
    MoveStart(SeqSlot, TRUE, u, b, t, l, p)

SeqCreateStart ==
  \E u \in SeqUsers, b \in Boards, l \in Lists, p \in Positions \cup {NoPos} :
    CreateStart(SeqSlot, TRUE, u, b, l, p)

SeqDeleteStart ==
  \E u \in SeqUsers, b \in Boards, t \in Tasks :
    DeleteStart(SeqSlot, TRUE, u, b, t)

SeqMoveShift == MoveShift(SeqSlot)
SeqMoveUpdate == MoveUpdate(SeqSlot)
SeqMoveFindSource == MoveFindSource(SeqSlot)
SeqMoveReindex == MoveReindex(SeqSlot)
SeqMoveActivity == MoveActivity(SeqSlot)
SeqMoveEmit == MoveEmit(SeqSlot)
SeqCreateLast == CreateLast(SeqSlot)
SeqCreateInsert == CreateInsert(SeqSlot)
SeqCreateActivity == CreateActivity(SeqSlot)
SeqCreateEmit == CreateEmit(SeqSlot)
SeqDeleteRow == DeleteRow(SeqSlot)
SeqDeleteActivity == DeleteActivity(SeqSlot)
SeqDeleteEmit == DeleteEmit(SeqSlot)

Next ==
  \/ SeqMoveStart
  \/ SeqMoveShift
  \/ SeqMoveUpdate
  \/ SeqMoveFindSource
  \/ SeqMoveReindex
  \/ SeqMoveActivity
  \/ SeqMoveEmit
  \/ SeqCreateStart
  \/ SeqCreateLast
  \/ SeqCreateInsert
  \/ SeqCreateActivity
  \/ SeqCreateEmit
  \/ SeqDeleteStart
  \/ SeqDeleteRow
  \/ SeqDeleteActivity
  \/ SeqDeleteEmit

Spec == Init /\ [][Next]_vars

\* ------------------------------------------------- properties: vocabulary
\* the positions of the tasks of list l are exactly 0..n-1
Dense(ts, l) ==
  {ts[t].position : t \in TasksIn(ts, l)} = 0..(Cardinality(TasksIn(ts, l)) - 1)

Count(ts, l) == Cardinality(TasksIn(ts, l))

Quiescent == \A r \in Slots : ~Busy(r)

\* the handler in slot r has answered a move request with 200
MoveDone(r) == req[r].pc = "done" /\ req[r].kind = "move" /\ req[r].status = 200

\* x is before y in their list
Before(ts, x, y) == ts[x].listId = ts[y].listId /\ ts[x].position < ts[y].position

ScenarioA == Placed([t \in Tasks |-> "Backlog"])
ScenarioB == Placed([t \in Tasks |-> IF t = "T3" THEN "Done" ELSE "Backlog"])

\* C1: once every request has completed (one request at a time), the
\* positions of the tasks of every list are exactly 0..n-1.
C1_DensityAfterRequests ==
  Quiescent => \A l \in Lists : Dense(tasks, l)

\* C4: a completed move inside one dense list to an index i < n leaves the
\* moved task at position i, keeps the other tasks in their relative order
\* and leaves the list dense.
C4_SameListMove ==
  LET q == req[SeqSlot]
      l == q.targetListId
      t == q.taskId
  IN  (/\ MoveDone(SeqSlot)
       /\ q.fromListId = l
       /\ Dense(q.pre, l)
       /\ q.position < Count(q.pre, l))
      => /\ tasks[t] = Row(l, q.position)
         /\ Dense(tasks, l)
         /\ \A x, y \in TasksIn(q.pre, l) \ {t} :
              Before(q.pre, x, y) => Before(tasks, x, y)

\* C5: a completed move from list A to another list B at index i <= |B|
\* puts the task at position i of B, adds one to the position of every task
\* of B that was at a position >= i, and renumbers the rest of A to
\* 0..|A|-2 in its previous order; Backlog [T1, T2], Done [T3], T1 to Done
\* at 0 gives Backlog [T2@0], Done [T1@0, T3@1].
C5_CrossListMove ==
  LET q == req[SeqSlot]
      A == q.fromListId
      B == q.targetListId
      t == q.taskId
      i == q.position
      rest == TasksIn(q.pre, A) \ {t}
  IN  (/\ MoveDone(SeqSlot)
       /\ A # B
       /\ i <= Count(q.pre, B))
      => /\ tasks[t] = Row(B, i)
         /\ \A x \in TasksIn(q.pre, B) :
              tasks[x] = Row(B, IF q.pre[x].position >= i
                                THEN q.pre[x].position + 1
                                ELSE q.pre[x].position)
         /\ TasksIn(tasks, A) = rest
         /\ {tasks[x].position : x \in rest} = 0..(Cardinality(rest) - 1)
         /\ \A x, y \in rest : Before(q.pre, x, y) => Before(tasks, x, y)
         /\ (q.pre = ScenarioB /\ t = "T1" /\ B = "Done" /\ i = 0)
              => tasks = [T1 |-> Row("Done", 0), T2 |-> Row("Backlog", 0),
                          T3 |-> Row("Done", 1)]

\* the shift of the target list and the renumbering of the source list have
\* both changed a position
C5_Witness ==
  LET q == req[SeqSlot] IN
    /\ MoveDone(SeqSlot)
    /\ q.pre = ScenarioB /\ q.taskId = "T1"
    /\ q.targetListId = "Done" /\ q.position = 0
    /\ tasks["T3"].position = 1 /\ tasks["T2"].position = 0

\* C6: every task row is in one list; a completed move from A to another
\* list B takes exactly one task from A, adds exactly one to B, leaves the
\* count of every other list alone, and the moved task is still there
\* under its id.
C6_Conservation ==
  /\ \A t \in Tasks :
       Exists(tasks, t) => Cardinality({l \in Lists : t \in TasksIn(tasks, l)}) = 1
  /\ LET q == req[SeqSlot]
         A == q.fromListId
         B == q.targetListId
     IN  (MoveDone(SeqSlot) /\ A # B)
         => /\ Count(tasks, A) = Count(q.pre, A) - 1
            /\ Count(tasks, B) = Count(q.pre, B) + 1
            /\ \A l \in Lists \ {A, B} : Count(tasks, l) = Count(q.pre, l)
            /\ {x \in Tasks : Exists(tasks, x)} = {x \in Tasks : Exists(q.pre, x)}
            /\ q.taskId \in TasksIn(tasks, B)

C6_Witness ==
  LET q == req[SeqSlot] IN
    /\ MoveDone(SeqSlot)
    /\ q.fromListId = "Backlog" /\ q.targetListId = "Done"
    /\ Count(q.pre, "Backlog") = 2 /\ Count(tasks, "Backlog") = 1
    /\ Count(q.pre, "Done") = 1 /\ Count(tasks, "Done") = 2

\* C7: a completed move whose index is greater than the length of the
\* (dense) target list has put the task at the end of that list, at the
\* position equal to the clamped index, and the target list is dense.
C7_ClampIndex ==
  LET q == req[SeqSlot]
      l == q.targetListId
      t == q.taskId
  IN  (/\ q.pc = "done" /\ q.kind = "move" /\ q.status # 404
       /\ Dense(q.pre, l)
       /\ q.position > Count(q.pre, l))
      => /\ q.status = 200
         /\ \A x \in TasksIn(tasks, l) \ {t} : Before(tasks, x, t)
         /\ Dense(tasks, l)

\* C8: a completed move to the task's current list and current position
\* has changed no position, written no activity row and emitted no event.
C8_NoopElision ==
  LET q == req[SeqSlot]
      t == q.taskId
  IN  (/\ MoveDone(SeqSlot)
       /\ q.pre[t] = Row(q.targetListId, q.position))
      => /\ tasks = q.pre
         /\ ~q.logged
         /\ ~q.emitted

\* ------------------------------------------------- a database call may reject
SeqDbError == DbError(SeqSlot)

NextFail ==
  \/ SeqMoveStart
  \/ SeqMoveShift
  \/ SeqMoveUpdate
  \/ SeqMoveFindSource
  \/ SeqMoveReindex
  \/ SeqMoveActivity
  \/ SeqMoveEmit
  \/ SeqDbError

SpecFail == Init /\ [][NextFail]_vars

\* C3: a move request that failed after validation has left the task table
\* as it was before the request and has published no task:move event.
C3_FailedMoveRollsBack ==
  LET q == req[SeqSlot] IN
    (q.pc = "done" /\ q.kind = "move" /\ q.status = 500)
    => tasks = q.pre /\ ~q.emitted

\* ------------------------------------------------- two moves in flight
ConcLists == {"Backlog", "Done"}

InitConc ==
  /\ tasks \in {Placed(a) : a \in [Tasks -> ConcLists]}
  /\ rooms = [s \in Sockets |-> {"B1"}]
  /\ InitCommon

\* each slot handles one request
ConcMoveStart ==
  \E r \in Slots, t \in Tasks, l \in ConcLists, p \in Positions :
    /\ req[r].pc = "idle"
    /\ MoveStart(r, FALSE, "alice", "B1", t, l, p)

ConcMoveShift == \E r \in Slots : MoveShift(r)
ConcMoveUpdate == \E r \in Slots : MoveUpdate(r)
ConcMoveFindSource == \E r \in Slots : MoveFindSource(r)
ConcMoveReindex == \E r \in Slots : MoveReindex(r)
ConcMoveActivity == \E r \in Slots : MoveActivity(r)
ConcMoveEmit == \E r \in Slots : MoveEmit(r)

NextConc ==
  \/ ConcMoveStart
  \/ ConcMoveShift
  \/ ConcMoveUpdate
  \/ ConcMoveFindSource
  \/ ConcMoveReindex
  \/ ConcMoveActivity
  \/ ConcMoveEmit

SpecConc == InitConc /\ [][NextConc]_vars

\* C2: when two moves of two different tasks to index 0 of the same list
\* have both completed, whatever the interleaving of their database steps,
\* both tasks are in that list at two different positions and the list's
\* positions are 0..n-1.
C2_ConcurrentMovesToSameSlot ==
  LET a == req["r1"]
      b == req["r2"]
      l == a.targetListId
  IN  (/\ MoveDone("r1") /\ MoveDone("r2")
       /\ a.taskId # b.taskId
       /\ b.targetListId = l
       /\ a.position = 0 /\ b.position = 0
       /\ nreq = 2)
      => /\ tasks[a.taskId].listId = l
         /\ tasks[b.taskId].listId = l
         /\ tasks[a.taskId].position # tasks[b.taskId].position
         /\ Dense(tasks, l)

\* the place of request id n in the events delivered to socket s
EventIndexes(s, n) == {i \in 1..Len(inbox[s]) : inbox[s][i].req = n}

\* C9: when the position changes of move A were persisted before those of
\* move B on the same board, every subscriber of the board has received
\* A's task:move event before B's.
C9_EventOrderIsCommitOrder ==
  \A a, b \in Slots :
    (/\ a # b
     /\ MoveDone(a) /\ MoveDone(b)
     /\ req[a].boardId = req[b].boardId
     /\ req[a].id \in req[b].after)
    => \A s \in Sockets :
         \A i \in EventIndexes(s, req[a].id), j \in EventIndexes(s, req[b].id) :
           i < j

\* ------------------------------------------------- sockets joining and leaving
InitSock ==
  /\ tasks = Placed([t \in Tasks |-> CASE t = "T1" -> "Backlog"
                                       [] t = "T2" -> "Done"
                                       [] OTHER    -> "Archive"])
  /\ rooms = [s \in Sockets |-> {}]
  /\ InitCommon

SockJoin == \E s \in Sockets, b \in Boards : BoardJoin(s, b)
SockLeave == \E s \in Sockets, b \in Boards : BoardLeave(s, b)
SockDisconnect == \E s \in Sockets : Disconnect(s)

SockMoveStart ==
  \E u \in Users, b \in Boards, t \in Tasks, l \in Lists :
    MoveStart(SeqSlot, TRUE, u, b, t, l, 0)

NextSock ==
  \/ SockJoin
  \/ SockLeave
  \/ SockDisconnect
  \/ SockMoveStart
  \/ SeqMoveShift
  \/ SeqMoveUpdate
  \/ SeqMoveFindSource
  \/ SeqMoveReindex
  \/ SeqMoveActivity
  \/ SeqMoveEmit

SpecSock == InitSock /\ [][NextSock]_vars

\* the handler in slot r publishes its event in this step
Emits(r) == req'[r].emitted /\ ~req[r].emitted

\* C10: an event published for board B is delivered to every socket that is
\* in B's room at that moment and to no other socket; a socket receives
\* nothing except in such a step.
C10_RoomDelivery ==
  [][/\ \A r \in Slots :
          Emits(r) =>
            \A s \in Sockets :
              IF req[r].boardId \in rooms[s]
              THEN /\ Len(inbox'[s]) = Len(inbox[s]) + 1
                   /\ SubSeq(inbox'[s], 1, Len(inbox[s])) = inbox[s]
                   /\ inbox'[s][Len(inbox'[s])].boardId = req[r].boardId
                   /\ inbox'[s][Len(inbox'[s])].req = req[r].id
              ELSE inbox'[s] = inbox[s]
     /\ \A s \in Sockets :
          inbox'[s] # inbox[s] =>
            \E r \in Slots : Emits(r) /\ req[r].boardId \in rooms[s]
    ]_vars

\* an event of B1 was published while s1 was in B1's room and s2 only in
\* B2's: s1 has it, s2 has nothing
C10_Witness ==
  /\ req[SeqSlot].pc = "done" /\ req[SeqSlot].emitted
  /\ req[SeqSlot].boardId = "B1"
  /\ rooms["s1"] = {"B1"} /\ rooms["s2"] = {"B2"}
  /\ Len(inbox["s1"]) = 1 /\ inbox["s1"][1].boardId = "B1"
  /\ inbox["s2"] = << >>

\* ============================================================ board store
\* client/src/stores/boardStore.ts: activeBoard.lists is a sequence of list
\* objects [id, position, tasks]; tasks is a sequence of [id, listId, position]
LocalTask(t, l, p) == [id |-> t, listId |-> l, position |-> p]

LocalList(l, p, ts) == [id |-> l, position |-> p, tasks |-> ts]

\* Array.prototype.find / findIndex: the first match, 0 when there is none
FindIdx(s, x) ==
  IF \E i \in 1..Len(s) : s[i].id = x
  THEN CHOOSE i \in 1..Len(s) :
         s[i].id = x /\ \A j \in 1..(i - 1) : s[j].id # x
  ELSE 0

\* tasks.filter((t) => t.id !== taskId)
WithoutId(s, x) == SelectSeq(s, LAMBDA e : e.id # x)

\* arr.splice(start, 0, item): start is clamped to the length, a negative
\* start counts from the end and is clamped to 0
Splice(s, start, x) ==
  LET k == IF start > Len(s) THEN Len(s)
           ELSE IF start >= 0 THEN start
           ELSE IF Len(s) + start < 0 THEN 0
           ELSE Len(s) + start
  IN  SubSeq(s, 1, k) \o <<x>> \o SubSeq(s, k + 1, Len(s))

\* arr.splice(index, 1)
RemoveAt(s, i) == SubSeq(s, 1, i - 1) \o SubSeq(s, i + 1, Len(s))

\* tasks.forEach((t, i) => (t.position = i))
Renumber(s) == [i \in 1..Len(s) |-> [s[i] EXCEPT !.position = i - 1]]

\* tasks.sort((a, b) => a.position - b.position): Array.prototype.sort is
\* stable, elements with equal positions keep their order
RECURSIVE sortByPosition(_)
sortByPosition(s) ==
  IF Len(s) <= 1 THEN s
  ELSE LET x    == s[Len(s)]
           rest == sortByPosition(SubSeq(s, 1, Len(s) - 1))
           k    == Cardinality({i \in 1..Len(rest) :
                                  rest[i].position <= x.position})
       IN  SubSeq(rest, 1, k) \o <<x>> \o SubSeq(rest, k + 1, Len(rest))

\* the payload of task:move has no task
NoTask == Row(NoList, NoPos)

\* handleTaskMove without the filter on the target list
handleTaskMoveNoFilter(ls, taskId, fromListId, toListId, task) ==
  LET si == FindIdx(ls, fromListId)
      ti == FindIdx(ls, toListId)
      l1 == [i \in 1..Len(ls) |->
               IF i = si
               THEN [ls[i] EXCEPT !.tasks = WithoutId(@, taskId)]
               ELSE ls[i]]
  IN  [i \in 1..Len(ls) |->
         IF i = ti /\ task # NoTask
         THEN [l1[i] EXCEPT !.tasks =
                 sortByPosition(Append(@,
                     LocalTask(taskId, task.listId, task.position)))]
         ELSE l1[i]]

\* handleTaskMove(data): data = { taskId, fromListId, toListId, task }
handleTaskMove(ls, taskId, fromListId, toListId, task) ==
  LET si == FindIdx(ls, fromListId)
      ti == FindIdx(ls, toListId)
      l1 == [i \in 1..Len(ls) |->
               IF i = si
               THEN [ls[i] EXCEPT !.tasks = WithoutId(@, taskId)]
               ELSE ls[i]]
  IN  [i \in 1..Len(ls) |->
         IF i = ti /\ task # NoTask
         THEN [l1[i] EXCEPT !.tasks =
                 sortByPosition(Append(WithoutId(@, taskId),
                     LocalTask(taskId, task.listId, task.position)))]
         ELSE l1[i]]

\* moveTaskLocal(taskId, fromListId, toListId, newPosition)
moveTaskLocal(ls, taskId, fromListId, toListId, newPosition) ==
  LET si == FindIdx(ls, fromListId)
      ti == FindIdx(ls, toListId)
  IN  IF si = 0 \/ ti = 0 THEN ls
      ELSE
        LET k == FindIdx(ls[si].tasks, taskId) IN
        IF k = 0 THEN ls
        ELSE
          LET task == LocalTask(taskId, toListId, newPosition)
              src  == RemoveAt(ls[si].tasks, k)
              tgt  == Splice(IF si = ti THEN src ELSE ls[ti].tasks,
                             newPosition, task)
          IN  [i \in 1..Len(ls) |->
                 IF i = ti THEN [ls[i] EXCEPT !.tasks = Renumber(tgt)]
                 ELSE IF i = si THEN [ls[i] EXCEPT !.tasks = Renumber(src)]
                 ELSE ls[i]]

\* handleTaskUpdate({ type, payload }); TASK_UPDATED, TASK_ASSIGNED and
\* TASK_UNASSIGNED start fetchBoard and leave the lists as they are
handleTaskUpdate(ls, type, payload) ==
  IF type = "TASK_CREATED" THEN
    [i \in 1..Len(ls) |->
       IF ls[i].id # payload.listId THEN ls[i]
       ELSE IF FindIdx(ls[i].tasks, payload.id) # 0
       THEN [ls[i] EXCEPT !.tasks =
               [j \in 1..Len(@) |-> IF @[j].id = payload.id THEN payload
                                    ELSE @[j]]]
       ELSE [ls[i] EXCEPT !.tasks = Append(@, payload)]]
  ELSE IF type = "TASK_DELETED" THEN
    [i \in 1..Len(ls) |->
       IF ls[i].id = payload.listId
       THEN [ls[i] EXCEPT !.tasks = WithoutId(@, payload.id)]
       ELSE ls[i]]
  ELSE ls

\* handleListUpdate({ type, payload }); the payload of LIST_CREATED and
\* LIST_UPDATED is the list row with its tasks, LISTS_REORDERED has no branch
handleListUpdate(ls, type, payload) ==
  IF type = "LIST_CREATED" THEN
    IF FindIdx(ls, payload.id) # 0
    THEN [i \in 1..Len(ls) |-> IF ls[i].id = payload.id THEN payload ELSE ls[i]]
    ELSE Append(ls, payload)
  ELSE IF type = "LIST_UPDATED" THEN
    [i \in 1..Len(ls) |-> IF ls[i].id = payload.id THEN payload ELSE ls[i]]
  ELSE IF type = "LIST_DELETED" THEN
    SelectSeq(ls, LAMBDA e : e.id # payload.id)
  ELSE ls

\* the lists of board b that have a row
BoardLists(lp, b) == {l \in Lists : listBoard(l) = b /\ lp[l] # NoPos}

\* include: { lists: { orderBy: { position: "asc" } } }
listsAsc(lp, b) ==
  LET S == BoardLists(lp, b)
      n == Cardinality(S)
  IN  {s \in [1..n -> S] :
         /\ \A i, j \in 1..n : i # j => s[i] # s[j]
         /\ \A i, j \in 1..n : i < j => lp[s[i]] <= lp[s[j]]}

\* include: { tasks: { orderBy: { position: "asc" } } } for one list
TaskSeqs(ts, l) ==
  {[i \in 1..Len(src) |-> LocalTask(src[i], l, ts[src[i]].position)] :
     src \in findManyAsc(ts, l)}

\* GET /api/boards/:id: the board with its lists and their tasks, both by
\* ascending position; every answer the database may give
Snapshots(ts, lp, b) ==
  LET S == BoardLists(lp, b)
      U == UNION {TaskSeqs(ts, l) : l \in S}
  IN  {[i \in 1..Len(lo) |-> LocalList(lo[i], lp[lo[i]], f[lo[i]])] :
         lo \in listsAsc(lp, b),
         f \in {g \in [S -> U] : \A l \in S : g[l] \in TaskSeqs(ts, l)}}

\* BoardPage: socket.on("task:move", handleTaskMove),
\* socket.on("task:update", handleTaskUpdate),
\* socket.on("list:update", handleListUpdate)
onEvent(ls, e) ==
  IF e.name = "task:move"
  THEN handleTaskMove(ls, e.taskId, e.fromListId, e.toListId, e.task)
  ELSE IF e.name = "task:update"
  THEN handleTaskUpdate(ls, e.type,
         IF e.type = "TASK_CREATED"
         THEN LocalTask(e.taskId, e.task.listId, e.task.position)
         ELSE [id |-> e.taskId, listId |-> e.task.listId])
  ELSE IF e.name = "list:update"
  THEN handleListUpdate(ls, e.type,
         IF e.type \in {"LIST_CREATED", "LIST_UPDATED"}
         THEN LocalList(e.toListId, e.position, e.tasks)
         ELSE [id |-> e.toListId])
  ELSE ls

\* ------------------------------------------------- the store on its own
\* the handlers of the board store applied to events of board B1 in any
\* order, starting from a fetched board
StoreBoard == "B1"

StoreLists == {l \in Lists : listBoard(l) = StoreBoard}

StoreEvent(name, type, t, from, to, p, task, ts) ==
  [name |-> name, type |-> type, boardId |-> StoreBoard, taskId |-> t,
   fromListId |-> from, toListId |-> to, position |-> p, task |-> task,
   tasks |-> ts, req |-> 0]

TaskMoveEvents ==
  {StoreEvent("task:move", "TASK_MOVED", t, f, l, p, Row(l, p), << >>) :
     t \in Tasks, f \in StoreLists, l \in StoreLists, p \in 0..MaxPos}

TaskUpdateEvents ==
  {StoreEvent("task:update", "TASK_CREATED", t, NoList, l, p, Row(l, p), << >>) :
     t \in Tasks, l \in StoreLists, p \in 0..MaxPos}
  \cup
  {StoreEvent("task:update", "TASK_DELETED", t, l, NoList, NoPos,
              Row(l, NoPos), << >>) : t \in Tasks, l \in StoreLists}

\* a LIST_CREATED payload has tasks: [], a LIST_UPDATED payload the tasks of
\* the list by ascending position
ListUpdateEvents ==
  {StoreEvent("list:update", "LIST_CREATED", "none", NoList, l, p, NoTask, << >>) :
     l \in StoreLists, p \in 0..MaxPos}
  \cup
  UNION {{StoreEvent("list:update", "LIST_UPDATED", "none", NoList, l, p,
                     NoTask, s) : s \in TaskSeqs(tasks, l)} :
          l \in StoreLists, p \in 0..MaxPos}
  \cup
  {StoreEvent("list:update", "LIST_DELETED", "none", NoList, l, NoPos,
              NoTask, << >>) : l \in StoreLists}

StoreApply(ls) ==
  /\ view.steps < MaxSteps
  /\ view' = [view EXCEPT !.lists = ls, !.steps = @ + 1]
  /\ UNCHANGED <<tasks, req, activities, rooms, inbox, nreq, lpos, boardRows>>

StoreTaskMove == \E e \in TaskMoveEvents : StoreApply(onEvent(view.lists, e))

StoreTaskUpdate == \E e \in TaskUpdateEvents : StoreApply(onEvent(view.lists, e))

StoreListUpdate == \E e \in ListUpdateEvents : StoreApply(onEvent(view.lists, e))

StoreMoveLocal ==
  \E t \in Tasks, f \in StoreLists, l \in StoreLists, p \in 0..MaxPos :
    StoreApply(moveTaskLocal(view.lists, t, f, l, p))

InitStore ==
  /\ tasks \in {Placed(a) : a \in [Tasks -> StoreLists \cup {NoList}]}
  /\ rooms = [s \in Sockets |-> {}]
  /\ InitServer
  /\ \E ls \in Snapshots(tasks, lpos, StoreBoard) :
       view = [ClosedView EXCEPT !.page = "open", !.loaded = TRUE, !.lists = ls]

NextStore ==
  \/ StoreTaskMove
  \/ StoreTaskUpdate
  \/ StoreListUpdate
  \/ StoreMoveLocal

SpecStore == InitStore /\ [][NextStore]_vars

AllStoreEvents == TaskMoveEvents \cup TaskUpdateEvents \cup ListUpdateEvents

\* C13: applying a TASK_MOVED, TASK_CREATED, TASK_DELETED, LIST_CREATED,
\* LIST_UPDATED or LIST_DELETED event twice in a row gives the same lists,
\* task order and positions as applying it once, in every store state
C13_IdempotentEvents ==
  \A e \in AllStoreEvents :
    onEvent(onEvent(view.lists, e), e) = onEvent(view.lists, e)

\* an event that changes the store has been applied: the task now sits in
\* the target list next to another task, and the event arrives again
C13_Witness ==
  /\ view.steps = MaxSteps
  /\ \E e \in TaskMoveEvents :
       /\ e.fromListId # e.toListId
       /\ onEvent(view.lists, e) = view.lists
       /\ \E i \in 1..Len(view.lists) :
            /\ view.lists[i].id = e.toListId
            /\ Len(view.lists[i].tasks) >= 2
            /\ FindIdx(view.lists[i].tasks, e.taskId) # 0

\* ============================================== one browser tab on board B1
\* BoardPage and DndBoardWrapper of a tab of alice with socket s1; its move
\* requests are handled in slot r2, the requests of other clients in slot r1,
\* and the server handles one request at a time
ViewSocket == "s1"
ViewUser == "alice"
ViewSlot == "r2"
OtherSlot == "r1"

\* BoardPage useEffect: fetchBoard(boardId); connectSocket();
\* setTimeout(() => joinBoard(boardId), 500); socket.on(...)
ViewOpen ==
  /\ view.page = "closed"
  /\ view' = [view EXCEPT !.page = "open", !.fetch = "sent", !.join = "timer"]
  /\ UNCHANGED <<tasks, req, activities, rooms, inbox, nreq, lpos, boardRows>>

\* GET /api/boards/:id answers the request of fetchBoard
GetBoard ==
  /\ view.fetch = "sent"
  /\ IF verifyBoardAccess(StoreBoard, ViewUser)
     THEN \E d \in Snapshots(tasks, lpos, StoreBoard) :
            view' = [view EXCEPT !.fetch = "resp", !.data = d, !.snap = nreq]
     ELSE view' = [view EXCEPT !.fetch = "failed"]
  /\ UNCHANGED <<tasks, req, activities, rooms, inbox, nreq, lpos, boardRows>>

\* fetchBoard after the await: set({ activeBoard: data.data }), or the catch
FetchDone ==
  /\ view.fetch \in {"resp", "failed"}
  /\ view' = IF view.fetch = "resp"
             THEN [view EXCEPT !.fetch = "none", !.lists = view.data,
                               !.loaded = TRUE, !.data = << >>,
                               !.drag = IF @ = "rejected" THEN "reverted" ELSE @]
             ELSE [view EXCEPT !.fetch = "none"]
  /\ UNCHANGED <<tasks, req, activities, rooms, inbox, nreq, lpos, boardRows>>

\* the timer of the effect fires: joinBoard emits board:join
JoinTimer ==
  /\ view.page = "open"
  /\ view.join = "timer"
  /\ view' = [view EXCEPT !.join = "sent"]
  /\ UNCHANGED <<tasks, req, activities, rooms, inbox, nreq, lpos, boardRows>>

\* the server handles board:join of the tab's socket
JoinServe ==
  /\ view.join = "sent"
  /\ rooms' = [rooms EXCEPT ![ViewSocket] = @ \cup {StoreBoard}]
  /\ view' = [view EXCEPT !.join = "joined"]
  /\ UNCHANGED <<tasks, req, activities, inbox, nreq, lpos, boardRows>>

\* the socket delivers the next event to the handler registered for it; the
\* handlers return when activeBoard is null
Receive ==
  /\ view.page = "open"
  /\ view.handled < Len(inbox[ViewSocket])
  /\ view' = [view EXCEPT !.handled = @ + 1,
                          !.lists = IF view.loaded
                                    THEN onEvent(@, inbox[ViewSocket][view.handled + 1])
                                    ELSE @]
  /\ UNCHANGED <<tasks, req, activities, rooms, inbox, nreq, lpos, boardRows>>

\* the task objects of the rendered board
LocalTasks(ls) == UNION {Range(ls[i].tasks) : i \in 1..Len(ls)}

\* handleDragEnd, dropped on another task: [toListId, newPosition]
dropOnTask(ls, fromListId, over) ==
  LET ti == FindIdx(ls, over.listId)
  IN  [to  |-> over.listId,
       pos |-> IF ti = 0 THEN 0 ELSE FindIdx(ls[ti].tasks, over.id) - 1]

\* handleDragEnd, dropped on a list container
dropOnList(ls, l) ==
  LET ti == FindIdx(ls, l)
  IN  [to |-> l, pos |-> IF ti = 0 THEN 0 ELSE Len(ls[ti].tasks)]

\* what handleDragEnd computes for the drops of task a in the rendered board
Drops(ls, a) ==
  {dropOnTask(ls, a.listId, x) : x \in LocalTasks(ls) \ {a}}
  \cup {dropOnList(ls, ls[i].id) : i \in 1..Len(ls)}

\* handleDragEnd sending the PUT without the optimistic update
DragNoOptimistic ==
  /\ view.page = "open" /\ view.loaded /\ view.fetch = "none"
  /\ view.drag \in {"idle", "confirmed", "reverted"}
  /\ nreq < MaxReqs
  /\ \E a \in LocalTasks(view.lists) : \E d \in Drops(view.lists, a) :
       /\ d.pos >= 0
       /\ view' = [view EXCEPT
            !.drag = "applied", !.dragged = a.id, !.to = d.to, !.pos = d.pos]
  /\ UNCHANGED <<tasks, req, activities, rooms, inbox, nreq, lpos, boardRows>>

\* handleDragEnd up to the await: moveTaskLocal, then moveTask sends the PUT
Drag ==
  /\ view.page = "open" /\ view.loaded /\ view.fetch = "none"
  /\ view.drag \in {"idle", "confirmed", "reverted"}
  /\ nreq < MaxReqs
  /\ \E a \in LocalTasks(view.lists) : \E d \in Drops(view.lists, a) :
       /\ d.pos >= 0
       /\ view' = [view EXCEPT
            !.lists = moveTaskLocal(@, a.id, a.listId, d.to, d.pos),
            !.drag = "applied", !.dragged = a.id, !.to = d.to, !.pos = d.pos]
  /\ UNCHANGED <<tasks, req, activities, rooms, inbox, nreq, lpos, boardRows>>

\* the server starts to handle the PUT of the tab
MoveSend ==
  /\ view.drag = "applied"
  /\ MoveValidate(ViewSlot, TRUE, ViewUser, StoreBoard, view.dragged,
                  view.to, view.pos)
  /\ view' = [view EXCEPT !.drag = "sent", !.dragged = "none",
                          !.to = NoList, !.pos = NoPos]

\* the catch of handleDragEnd without the fetchBoard call
MoveResponseNoRefetch ==
  /\ view.drag = "sent"
  /\ req[ViewSlot].pc = "done"
  /\ view' = IF req[ViewSlot].status = 200
             THEN [view EXCEPT !.drag = "confirmed"]
             ELSE [view EXCEPT !.drag = "rejected"]
  /\ UNCHANGED <<tasks, req, activities, rooms, inbox, nreq, lpos, boardRows>>

\* handleDragEnd after the await: moveTask resolves and nothing is merged,
\* or it rejects and the catch starts fetchBoard
MoveResponse ==
  /\ view.drag = "sent"
  /\ req[ViewSlot].pc = "done"
  /\ view' = IF req[ViewSlot].status = 200
             THEN [view EXCEPT !.drag = "confirmed"]
             ELSE [view EXCEPT !.drag = "rejected", !.fetch = "sent"]
  /\ UNCHANGED <<tasks, req, activities, rooms, inbox, nreq, lpos, boardRows>>

\* the requests of the other clients of the board
OtherMoveStart ==
  \E t \in Tasks, l \in StoreLists, p \in Positions :
    MoveStart(OtherSlot, TRUE, ViewUser, StoreBoard, t, l, p)

OtherDeleteStart ==
  \E t \in Tasks : DeleteStart(OtherSlot, TRUE, ViewUser, StoreBoard, t)

ViewDeleteRow == DeleteRow(OtherSlot)
ViewDeleteActivity == DeleteActivity(OtherSlot)
ViewDeleteEmit == DeleteEmit(OtherSlot)

\* the boards the tab opens: T1 and T3 in Backlog, T2 in Backlog or in Done
ViewPlacements ==
  {a \in [Tasks -> StoreLists] : a["T1"] = "Backlog" /\ a["T3"] = "Backlog"}

InitView ==
  /\ tasks \in {Placed(a) : a \in ViewPlacements}
  /\ rooms = [s \in Sockets |-> {}]
  /\ InitCommon

NextView ==
  \/ ViewOpen
  \/ GetBoard
  \/ FetchDone
  \/ JoinTimer
  \/ JoinServe
  \/ Receive
  \/ Drag
  \/ MoveSend
  \/ MoveResponse
  \/ OtherMoveStart
  \/ OtherDeleteStart
  \/ ConcMoveShift
  \/ ConcMoveUpdate
  \/ ConcMoveFindSource
  \/ ConcMoveReindex
  \/ ConcMoveActivity
  \/ ConcMoveEmit
  \/ ViewDeleteRow
  \/ ViewDeleteActivity
  \/ ViewDeleteEmit

SpecView == InitView /\ [][NextView]_vars

\* the fetch of the tab has returned a snapshot of the board
Fetched == view.loaded \/ view.fetch = "resp"

Delivered(r) ==
  \E i \in 1..Len(inbox[ViewSocket]) : inbox[ViewSocket][i].req = req[r].id

\* C11: after the tab opened the board, the event of every mutation of the
\* board that was requested after the snapshot of its fetch was taken has
\* been delivered to the tab's socket once it is emitted, also when it is
\* emitted before the server has handled board:join
C11_NoEventLostAfterSnapshot ==
  \A r \in Slots :
    (/\ Fetched
     /\ req[r].emitted
     /\ req[r].boardId = StoreBoard
     /\ req[r].id > view.snap)
    => Delivered(r)

\* ------------------------------------------------- a rejected optimistic move
\* the tab and the other clients' deletes; the server answers every request
\* it received and the continuations of the awaits run
NextRevert ==
  \/ ViewOpen
  \/ GetBoard
  \/ FetchDone
  \/ JoinTimer
  \/ JoinServe
  \/ Receive
  \/ Drag
  \/ MoveSend
  \/ MoveResponse
  \/ OtherDeleteStart
  \/ ConcMoveShift
  \/ ConcMoveUpdate
  \/ ConcMoveFindSource
  \/ ConcMoveReindex
  \/ ConcMoveActivity
  \/ ConcMoveEmit
  \/ ViewDeleteRow
  \/ ViewDeleteActivity
  \/ ViewDeleteEmit

SpecRevert ==
  /\ InitView
  /\ [][NextRevert]_vars
  /\ WF_vars(GetBoard)
  /\ WF_vars(FetchDone)
  /\ WF_vars(MoveResponse)

\* the server has rejected the move request of the tab's optimistic move
Rejected ==
  \/ view.drag = "rejected"
  \/ /\ view.drag = "sent"
     /\ req[ViewSlot].pc = "done"
     /\ req[ViewSlot].status # 200

Reverted == view.drag = "reverted"

\* the re-fetch completes: the server did not change after the rejected
\* request, and the store now holds the board as the server has it
RevertStep ==
  (/\ view.drag = "rejected"
   /\ Reverted'
   /\ req[ViewSlot].id = nreq
   /\ view.snap = nreq)
  => view'.lists \in Snapshots(tasks, lpos, StoreBoard)

Places(ls, t) ==
  {<<i, k>> \in (1..Len(ls)) \X (1..Cardinality(Tasks)) :
     k <= Len(ls[i].tasks) /\ ls[i].tasks[k].id = t}

\* C14: whatever optimistic moves, responses and events the store has
\* applied, every task id appears at most once over all lists and every
\* list id at most once
C14_UniqueIds ==
  /\ \A t \in Tasks : Cardinality(Places(view.lists, t)) <= 1
  /\ \A i, j \in 1..Len(view.lists) :
       view.lists[i].id = view.lists[j].id => i = j

\* the task the tab has moved optimistically, while the move is not settled
Optimistic ==
  IF view.drag = "applied" THEN view.dragged
  ELSE IF view.drag = "sent" THEN req[ViewSlot].taskId
  ELSE "none"

\* the event the socket hands to its handler in this step
Arriving == inbox[ViewSocket][view.handled + 1]

\* C15: a TASK_MOVED event for the task the tab has moved optimistically is
\* applied and supersedes the guess: afterwards the task is in the event's
\* toListId with the event's position and in no other list
C15_EventSupersedesGuess ==
  [][(/\ view.handled < Len(inbox[ViewSocket])
      /\ view'.handled = view.handled + 1
      /\ view.loaded
      /\ Arriving.name = "task:move"
      /\ Arriving.taskId = Optimistic)
     => \A i \in 1..Len(view'.lists) :
          LET k == FindIdx(view'.lists[i].tasks, Arriving.taskId) IN
          IF view'.lists[i].id = Arriving.toListId
          THEN /\ k # 0
               /\ view'.lists[i].tasks[k].position = Arriving.position
               /\ view'.lists[i].tasks[k].listId = Arriving.toListId
          ELSE k = 0]_vars

\* the ids of the lists and of their tasks, in display order
Orders(ls) ==
  [i \in 1..Len(ls) |->
     [id |-> ls[i].id,
      tasks |-> [k \in 1..Len(ls[i].tasks) |-> ls[i].tasks[k].id]]]

\* the lists show the tasks in the order of the server's positions
SameOrderAsServer(ls) ==
  \E s \in Snapshots(tasks, lpos, StoreBoard) : Orders(ls) = Orders(s)

\* the slot of the request that emitted event e
SlotOf(e) == CHOOSE r \in Slots : req[r].id = e.req

\* C16: a subscriber whose lists equal the server state before another
\* client's move and who applies the move's TASK_MOVED event shows the
\* tasks of the source and target lists in the server's post-move order
C16_SubscriberOrder ==
  [][(/\ view.handled < Len(inbox[ViewSocket])
      /\ view'.handled = view.handled + 1
      /\ view.loaded
      /\ Arriving.name = "task:move"
      /\ LET q == req[SlotOf(Arriving)] IN
           /\ SlotOf(Arriving) = OtherSlot
           /\ q.id = nreq
           /\ \A l \in StoreLists : Dense(q.pre, l)
           /\ view.lists \in Snapshots(q.pre, lpos, StoreBoard))
     => SameOrderAsServer(view'.lists)]_vars

\* C17: when the tab's lists were the server's dense state and the server
\* has carried out the tab's request, the orders moveTaskLocal produced are
\* the orders the server persisted, for same-list and cross-list drops
C17_LocalMoveMirrorsServer ==
  LET q == req[ViewSlot] IN
  (/\ view.drag = "sent"
   /\ MoveDone(ViewSlot)
   /\ q.id = nreq
   /\ \A l \in StoreLists : Dense(q.pre, l)
   /\ \E ls \in Snapshots(q.pre, lpos, StoreBoard) :
        view.lists = moveTaskLocal(ls, q.taskId, q.fromListId,
                                   q.targetListId, q.position))
  => SameOrderAsServer(view.lists)

\* C18: when the response of a successful move is processed, the task's
\* local listId and position are those of the task the response returned
C18_ResponseMerged ==
  [][(/\ view.drag = "sent"
      /\ view'.drag = "confirmed")
     => /\ Places(view'.lists, req[ViewSlot].taskId) # {}
        /\ \A pl \in Places(view'.lists, req[ViewSlot].taskId) :
             LET x == view'.lists[pl[1]].tasks[pl[2]] IN
             /\ x.listId = req[ViewSlot].moved.listId
             /\ x.position = req[ViewSlot].moved.position]_vars

\* ============================================================ list routes
\* server/src/routes/activity.routes.ts, second part: one action per handler,
\* the handlers run one after the other
ListEvent(type, b, l, p, ts) ==
  [name |-> "list:update", type |-> type, boardId |-> b, taskId |-> "none",
   fromListId |-> NoList, toListId |-> l, position |-> p, task |-> NoTask,
   tasks |-> ts, req |-> nreq + 1]

\* prisma.list.findFirst({ where: { id: listId, boardId } })
listRowInBoard(lp, l, b) == lp[l] # NoPos /\ listBoard(l) = b

\* prisma.list.findFirst({ where: { boardId }, orderBy: { position: "desc" } })
\* then lastList ? lastList.position + 1 : 0
appendListPosition(lp, b) ==
  IF BoardLists(lp, b) = {} THEN 0
  ELSE (CHOOSE m \in {lp[l] : l \in BoardLists(lp, b)} :
          \A l \in BoardLists(lp, b) : lp[l] <= m) + 1

\* the tasks of a deleted list are deleted with it
listDeleteCascade(ts, l) ==
  [t \in Tasks |-> IF ts[t].listId = l THEN Row(NoList, NoPos) ELSE ts[t]]

\* prisma.$transaction(listIds.map((id, index) =>
\*     prisma.list.update({ where: { id }, data: { position: index } })))
RECURSIVE listsReindex(_, _, _)
listsReindex(lp, listIds, k) ==
  IF k > Len(listIds) THEN lp
  ELSE listsReindex([lp EXCEPT ![listIds[k]] = k - 1], listIds, k + 1)

\* the handler answers without a write: 404 or 500
ListRefuse ==
  UNCHANGED <<tasks, lpos, activities, inbox>>

\* POST /api/boards/:boardId/lists; p = NoPos when the body has no position
ListCreate(u, b, p) ==
  /\ nreq < MaxReqs
  /\ nreq' = nreq + 1
  /\ IF ~verifyBoardAccess(b, u) THEN ListRefuse
     ELSE \E l \in {x \in Lists : listBoard(x) = b /\ lpos[x] = NoPos} :
            LET position == IF p = NoPos THEN appendListPosition(lpos, b) ELSE p
            IN  /\ lpos' = [lpos EXCEPT ![l] = position]
                /\ activityCreate
                /\ emitBoardEvent(b, ListEvent("LIST_CREATED", b, l, position, << >>))
                /\ UNCHANGED tasks
  /\ UNCHANGED <<req, rooms, view, boardRows>>

\* PATCH /api/boards/:boardId/lists/:listId; p = NoPos when only the title
\* is sent
ListPatch(u, b, l, p) ==
  /\ nreq < MaxReqs
  /\ nreq' = nreq + 1
  /\ IF ~verifyBoardAccess(b, u) \/ ~listRowInBoard(lpos, l, b) THEN ListRefuse
     ELSE LET position == IF p = NoPos THEN lpos[l] ELSE p IN
          /\ lpos' = [lpos EXCEPT ![l] = position]
          /\ activityCreate
          /\ \E s \in TaskSeqs(tasks, l) :
               emitBoardEvent(b, ListEvent("LIST_UPDATED", b, l, position, s))
          /\ UNCHANGED tasks
  /\ UNCHANGED <<req, rooms, view, boardRows>>

\* DELETE /api/boards/:boardId/lists/:listId
ListDelete(u, b, l) ==
  /\ nreq < MaxReqs
  /\ nreq' = nreq + 1
  /\ IF ~verifyBoardAccess(b, u) \/ ~listRowInBoard(lpos, l, b) THEN ListRefuse
     ELSE /\ lpos' = [lpos EXCEPT ![l] = NoPos]
          /\ tasks' = listDeleteCascade(tasks, l)
          /\ activityCreate
          /\ emitBoardEvent(b, ListEvent("LIST_DELETED", b, l, NoPos, << >>))
  /\ UNCHANGED <<req, rooms, view, boardRows>>

\* PUT /api/boards/:boardId/lists/reorder: the updates are by id only; an id
\* without a row makes the transaction throw and nothing is written
ListsReorder(u, b, listIds) ==
  /\ nreq < MaxReqs
  /\ nreq' = nreq + 1
  /\ IF \/ ~verifyBoardAccess(b, u)
        \/ \E k \in 1..Len(listIds) : lpos[listIds[k]] = NoPos
     THEN ListRefuse
     ELSE /\ lpos' = listsReindex(lpos, listIds, 1)
          /\ emitBoardEvent(b, ListEvent("LISTS_REORDERED", b, NoList, NoPos, listIds))
          /\ UNCHANGED <<tasks, activities>>
  /\ UNCHANGED <<req, rooms, view, boardRows>>

\* the bodies the schemas accept: position is optional, listIds has at
\* least one id
ListPositions == (0..MaxPos) \cup {NoPos}

ListIdSeqs == UNION {[1..n -> Lists] : n \in 1..Cardinality(Lists)}

ListsCreate == \E u \in Users, b \in Boards, p \in ListPositions : ListCreate(u, b, p)

ListsPatch ==
  \E u \in Users, b \in Boards, l \in Lists, p \in ListPositions :
    ListPatch(u, b, l, p)

ListsDelete == \E u \in Users, b \in Boards, l \in Lists : ListDelete(u, b, l)

ListsPutReorder ==
  \E u \in Users, b \in Boards, ids \in ListIdSeqs : ListsReorder(u, b, ids)

\* the lists that were created, without explicit position, in the order
\* Backlog, Done on B1 and Archive on B2; each task in its list
ListsPlaced(S) ==
  [l \in Lists |->
     IF l \notin S THEN NoPos
     ELSE IF l = "Done" /\ "Backlog" \in S THEN 1 ELSE 0]

HomeList(t) == IF t = "T1" THEN "Backlog" ELSE IF t = "T2" THEN "Done" ELSE "Archive"

InitListRoutes ==
  /\ \E S \in SUBSET Lists :
       /\ lpos = ListsPlaced(S)
       /\ tasks = Placed([t \in Tasks |->
                            IF HomeList(t) \in S THEN HomeList(t) ELSE NoList])
  /\ rooms = [s \in Sockets |-> IF s = "s1" THEN {"B1"} ELSE {}]
  /\ req = [r \in Slots |-> IdleReq]
  /\ activities = 0
  /\ inbox = [s \in Sockets |-> << >>]
  /\ nreq = 0
  /\ view = ClosedView
  /\ boardRows = InitBoards

NextListRoutes ==
  \/ ListsCreate
  \/ ListsPatch
  \/ ListsDelete
  \/ ListsPutReorder

SpecListRoutes == InitListRoutes /\ [][NextListRoutes]_vars

\* C19: after any sequence of completed list create, update, delete and
\* reorder requests the positions of the lists of every board are exactly
\* 0..m-1 for its m lists, without gap and without duplicate
C19_ListPositionsDense ==
  \A b \in Boards :
    LET S == BoardLists(lpos, b) IN
    /\ {lpos[l] : l \in S} = 0..(Cardinality(S) - 1)
    /\ \A x, y \in S : lpos[x] = lpos[y] => x = y

\* ------------------------------------------------- moves by any user
\* one move request at a time, of a member or of a user without access, for
\* any board, task, target list and position
AnyMoveStart ==
  \E u \in Users, b \in Boards, t \in Tasks, l \in Lists, p \in Positions :
    MoveStart(SeqSlot, TRUE, u, b, t, l, p)

NextAccess ==
  \/ AnyMoveStart
  \/ SeqMoveShift
  \/ SeqMoveUpdate
  \/ SeqMoveFindSource
  \/ SeqMoveReindex
  \/ SeqMoveActivity
  \/ SeqMoveEmit

SpecAccess == Init /\ [][NextAccess]_vars

\* the caller is neither owner nor member of the board of the request
NoAccess(q) == q.user \notin boardUsers(q.boardId)

\* the task has no row in a list of the board of the request
TaskNotInBoard(q) ==
  \/ q.pre[q.taskId].listId = NoList
  \/ listBoard(q.pre[q.taskId].listId) # q.boardId

\* the target list is a list of another board
ListNotInBoard(q) == listBoard(q.targetListId) # q.boardId

\* C20: a move request of a caller without access to the board, for a task
\* that is not in the board or to a target list of another board is answered
\* with an error; no task's listId or position changes, no activity is
\* written and no event is published
C20_InvalidMoveRejected ==
  \A r \in Slots :
    LET q == req[r] IN
    (/\ q.kind = "move"
     /\ NoAccess(q) \/ TaskNotInBoard(q) \/ ListNotInBoard(q))
    => /\ q.pc = "done"
       /\ q.status >= 400
       /\ tasks = q.pre
       /\ ~q.logged
       /\ ~q.emitted

\* bob, who has no access to B1, asked to move a task of B1 to a list of B1
\* and got 404
C20_Witness ==
  \E r \in Slots :
    LET q == req[r] IN
    /\ q.kind = "move" /\ q.pc = "done" /\ q.status = 404
    /\ NoAccess(q) /\ ~TaskNotInBoard(q) /\ ~ListNotInBoard(q)
    /\ tasks = q.pre

\* ------------------------------------------------- the activity write fails
\* C21: a move whose position writes are all persisted ends with the answer
\* 200 and with its task:move event published, also when the write of its
\* activity row was rejected
C21_ActivityFailureIsHarmless ==
  \A r \in Slots :
    (/\ req[r].kind = "move"
     /\ req[r].committed
     /\ req[r].pc = "done")
    => /\ req[r].status = 200
       /\ req[r].emitted

\* ------------------------------------------------- a fetch during a move
\* a tab opens the board and GET /api/boards/:id is answered at any moment of
\* the moves of another client
NextRead ==
  \/ ViewOpen
  \/ GetBoard
  \/ FetchDone
  \/ OtherMoveStart
  \/ ConcMoveShift
  \/ ConcMoveUpdate
  \/ ConcMoveFindSource
  \/ ConcMoveReindex
  \/ ConcMoveActivity
  \/ ConcMoveEmit

SpecRead == InitView /\ [][NextRead]_vars

\* the tasks of every list have the positions 0, 1, 2, ... in display order
LocalDense(ls) ==
  \A i \in 1..Len(ls) :
    \A k \in 1..Len(ls[i].tasks) : ls[i].tasks[k].position = k - 1

\* C22: the board a reader is sent while a move to a valid index of a dense
\* board is being handled, or after it, has in every list the positions
\* 0..n-1 without duplicate
C22_NoTornRead ==
  LET q == req[OtherSlot] IN
  (/\ view.fetch = "resp"
   /\ q.kind = "move"
   /\ q.id = view.snap
   /\ \A l \in StoreLists : Dense(q.pre, l)
   /\ q.position <= Count(q.pre, q.targetListId))
  => LocalDense(view.data)

\* C23: the task a completed move returned and put into its task:move event
\* has the listId and the position stored for that task when the handler
\* has finished, also after the renumbering of the source list
C23_ReturnedTaskIsCanonical ==
  MoveDone(SeqSlot) => req[SeqSlot].moved = tasks[req[SeqSlot].taskId]

\* C24: a completed delete of a task at position p has taken one from the
\* position of every task of its list that was after p and has left the
\* other tasks of the list where they were
C24_DeleteCompacts ==
  LET q == req[SeqSlot]
      t == q.taskId
      l == q.fromListId
  IN  (q.pc = "done" /\ q.kind = "delete" /\ q.status = 200)
      => /\ ~Exists(tasks, t)
         /\ \A x \in TasksIn(q.pre, l) \ {t} :
              tasks[x] = Row(l, IF q.pre[x].position > q.pre[t].position
                                THEN q.pre[x].position - 1
                                ELSE q.pre[x].position)

\* C25: a completed create of a task at position i has added one to the
\* position of every task of the list that was at a position >= i and has
\* left the others alone, so that no two tasks of the list share a position
C25_CreateShiftsSiblings ==
  LET q == req[SeqSlot]
      t == q.taskId
      l == q.targetListId
      i == q.position
  IN  (q.pc = "done" /\ q.kind = "create" /\ q.status = 201)
      => /\ tasks[t] = Row(l, i)
         /\ \A x \in TasksIn(q.pre, l) :
              tasks[x] = Row(l, IF q.pre[x].position >= i
                                THEN q.pre[x].position + 1
                                ELSE q.pre[x].position)
         /\ \A x, y \in TasksIn(tasks, l) :
              tasks[x].position = tasks[y].position => x = y

\* ------------------------------------------------- creates without position
\* tasks and lists are created without a position in the body and deleted,
\* one request at a time, on boards with any of the lists
AppendTaskCreateStart ==
  \E u \in Users, b \in Boards, l \in Lists :
    CreateStart(SeqSlot, TRUE, u, b, l, NoPos)

AppendListCreate ==
  /\ \A q \in Slots : ~Busy(q)
  /\ \E u \in Users, b \in Boards : ListCreate(u, b, NoPos)

AppendListDelete ==
  /\ \A q \in Slots : ~Busy(q)
  /\ \E u \in Users, b \in Boards, l \in Lists : ListDelete(u, b, l)

InitAppend ==
  /\ \E S \in SUBSET Lists :
       /\ lpos = ListsPlaced(S)
       /\ tasks \in {Placed(a) : a \in [Tasks -> S \cup {NoList}]}
  /\ rooms = [s \in Sockets |-> IF s = "s1" THEN {"B1"} ELSE {}]
  /\ req = [r \in Slots |-> IdleReq]
  /\ activities = 0
  /\ inbox = [s \in Sockets |-> << >>]
  /\ nreq = 0
  /\ view = ClosedView
  /\ boardRows = InitBoards

NextAppend ==
  \/ AppendTaskCreateStart
  \/ SeqCreateLast
  \/ SeqCreateInsert
  \/ SeqCreateActivity
  \/ SeqCreateEmit
  \/ SeqDeleteStart
  \/ SeqDeleteRow
  \/ SeqDeleteActivity
  \/ SeqDeleteEmit
  \/ AppendListCreate
  \/ AppendListDelete

SpecAppend == InitAppend /\ [][NextAppend]_vars

\* the position after the largest of S, 0 when S is empty
NextAfter(S) ==
  IF S = {} THEN 0
  ELSE (CHOOSE m \in S : \A x \in S : x <= m) + 1

\* C26: a task created without a position is stored at the largest position
\* of the tasks of its list plus one, at 0 in an empty list; a list created
\* without a position is stored at the largest position of the lists of its
\* board plus one, at 0 on a board without lists
C26_AppendPosition ==
  [][/\ (req[SeqSlot].pc = "c_create" /\ req'[SeqSlot].pc = "c_activity")
        => LET l == req[SeqSlot].targetListId IN
           tasks'[req'[SeqSlot].taskId] =
             Row(l, NextAfter({tasks[x].position : x \in TasksIn(tasks, l)}))
     /\ \A l \in Lists :
          (lpos[l] = NoPos /\ lpos'[l] # NoPos)
          => lpos'[l] = NextAfter({lpos[x] : x \in BoardLists(lpos, listBoard(l))})
    ]_vars

\* a task was appended to a list of one task at position 1: it is at 2
C26_Witness ==
  LET q == req[SeqSlot] IN
  /\ q.pc = "done" /\ q.kind = "create" /\ q.status = 201
  /\ Count(q.pre, q.targetListId) = 1
  /\ \E x \in TasksIn(q.pre, q.targetListId) : q.pre[x].position = 1
  /\ tasks[q.taskId].position = 2

\* ============================================================ board members
\* server/src/routes/board.routes.ts: POST /, POST /:id/members and
\* DELETE /:id/members/:userId, one action per handler, the handlers run one
\* after the other
BoardEvent(type, b, v, role) ==
  [name |-> "board:update", type |-> type, boardId |-> b, taskId |-> "none",
   fromListId |-> NoList, toListId |-> NoList, position |-> NoPos,
   task |-> NoTask, tasks |-> << >>, req |-> nreq + 1,
   userId |-> v, role |-> role]

\* prisma.board.findFirst({ where: { id, OR: [{ ownerId }, { members:
\*   { some: { userId, role: { in: ["OWNER", "ADMIN"] } } } }] } })
boardManagedBy(b, u) ==
  /\ boardRows[b].ownerId # NoUser
  /\ \/ boardRows[b].ownerId = u
     \/ boardRows[b].members[u] \in {"OWNER", "ADMIN"}

\* addMemberSchema: role is ADMIN or MEMBER, MEMBER when absent; any other
\* value is answered 400 by validate
addMemberRole(role) ==
  IF role = NoRole THEN "MEMBER"
  ELSE IF role \in {"ADMIN", "MEMBER"} THEN role
  ELSE "invalid"

\* the handler answers without a write: 400, 404, 409 or 500
MemberRefuse ==
  UNCHANGED <<boardRows, activities, inbox>>

\* POST /api/boards: the database generates the id of the new board
BoardCreate(u) ==
  /\ nreq < MaxReqs
  /\ nreq' = nreq + 1
  /\ \E b \in Boards :
       /\ boardRows[b].ownerId = NoUser
       /\ boardRows' = [boardRows EXCEPT ![b] =
            [ownerId |-> u,
             members |-> [x \in Users |-> IF x = u THEN "OWNER" ELSE NoRole]]]
  /\ activityCreate
  /\ UNCHANGED <<tasks, req, rooms, inbox, lpos, view>>

\* POST /api/boards/:id/members; v is the user with the email of the body,
\* not in Users when there is none
MemberAdd(u, b, v, role) ==
  /\ nreq < MaxReqs
  /\ nreq' = nreq + 1
  /\ IF \/ addMemberRole(role) = "invalid"
        \/ ~boardManagedBy(b, u)
        \/ v \notin Users
     THEN MemberRefuse
     ELSE IF boardRows[b].members[v] # NoRole
     THEN MemberRefuse
     ELSE /\ boardRows' = [boardRows EXCEPT ![b].members[v] = addMemberRole(role)]
          /\ activityCreate
          /\ emitBoardEvent(b, BoardEvent("MEMBER_ADDED", b, v, addMemberRole(role)))
  /\ UNCHANGED <<tasks, req, rooms, lpos, view>>

\* the handler without "Prevent removing the owner"
MemberRemoveAnyone(u, b, v) ==
  /\ nreq < MaxReqs
  /\ nreq' = nreq + 1
  /\ IF ~boardManagedBy(b, u) THEN MemberRefuse
     ELSE IF v \notin Users THEN MemberRefuse
     ELSE IF boardRows[b].members[v] = NoRole THEN MemberRefuse
     ELSE /\ boardRows' = [boardRows EXCEPT ![b].members[v] = NoRole]
          /\ activityCreate
          /\ emitBoardEvent(b, BoardEvent("MEMBER_REMOVED", b, v, NoRole))
  /\ UNCHANGED <<tasks, req, rooms, lpos, view>>

\* DELETE /api/boards/:id/members/:userId; boardMember.delete throws when
\* the user has no membership row
MemberRemove(u, b, v) ==
  /\ nreq < MaxReqs
  /\ nreq' = nreq + 1
  /\ IF ~boardManagedBy(b, u) THEN MemberRefuse
     ELSE IF v = boardRows[b].ownerId THEN MemberRefuse
     ELSE IF v \notin Users THEN MemberRefuse
     ELSE IF boardRows[b].members[v] = NoRole THEN MemberRefuse
     ELSE /\ boardRows' = [boardRows EXCEPT ![b].members[v] = NoRole]
          /\ activityCreate
          /\ emitBoardEvent(b, BoardEvent("MEMBER_REMOVED", b, v, NoRole))
  /\ UNCHANGED <<tasks, req, rooms, lpos, view>>

\* the users a request may name: the registered ones and an unknown one
AnyUsers == Users \cup {"nobody"}

\* the values the body of POST /:id/members may carry as role
BodyRoles == Roles \cup {NoRole}

BoardsCreate == \E u \in Users : BoardCreate(u)

MembersAdd ==
  \E u \in Users, b \in Boards, v \in AnyUsers, role \in BodyRoles :
    MemberAdd(u, b, v, role)

MembersRemove ==
  \E u \in Users, b \in Boards, v \in AnyUsers : MemberRemove(u, b, v)

\* a database without boards
NoBoards ==
  [b \in Boards |-> [ownerId |-> NoUser, members |-> [u \in Users |-> NoRole]]]

\* the requests arrive at an empty database or at the one with the boards
\* B1 and B2 and their members
InitMembers ==
  /\ boardRows \in {NoBoards, InitBoards}
  /\ lpos = [l \in Lists |-> NoPos]
  /\ tasks = [t \in Tasks |-> Row(NoList, NoPos)]
  /\ rooms \in [Sockets -> SUBSET Boards]
  /\ req = [r \in Slots |-> IdleReq]
  /\ activities = 0
  /\ inbox = [s \in Sockets |-> << >>]
  /\ nreq = 0
  /\ view = ClosedView

NextMembers ==
  \/ BoardsCreate
  \/ MembersAdd
  \/ MembersRemove

SpecMembers == InitMembers /\ [][NextMembers]_vars

\* the users with an OWNER membership of board b
OwnerRows(br, b) == {u \in Users : br[b].members[u] = "OWNER"}

\* C27: after any sequence of board-create, add-member and remove-member
\* requests every board has exactly one OWNER membership, held by the user
\* who created the board; a request to remove the owner writes nothing:
\* the memberships, the activities and the published events stay the same
C27_SingleOwner ==
  /\ [](\A b \in Boards :
          boardRows[b].ownerId # NoUser
          => OwnerRows(boardRows, b) = {boardRows[b].ownerId})
  /\ [][/\ \A b \in Boards :
             IF boardRows[b].ownerId # NoUser
             THEN boardRows'[b].ownerId = boardRows[b].ownerId
             ELSE boardRows'[b].ownerId # NoUser
                  => \E u \in Users : BoardCreate(u) /\ boardRows'[b].ownerId = u
        /\ (\E u \in Users, b \in Boards :
              /\ boardRows[b].ownerId # NoUser
              /\ MemberRemove(u, b, boardRows[b].ownerId))
           => /\ boardRows' = boardRows
              /\ activities' = activities
              /\ inbox' = inbox
       ]_vars

\* two requests were carried out and a board has, next to its owner, a
\* member who was added as ADMIN
C27_Witness ==
  /\ nreq >= 2 /\ activities = nreq
  /\ \E b \in Boards, v \in Users :
       /\ boardRows[b].ownerId \in Users
       /\ v # boardRows[b].ownerId
       /\ boardRows[b].members[v] = "ADMIN"

\* ------------------------------------------------- the connection drops
\* view.link: "first" while the connection made by connectSocket lasts,
\* "down" when it is lost, "again" when the client has re-established it

\* the connection of the tab's socket is lost after the tab joined the room:
\* the server runs the disconnect of the socket, which leaves its rooms
ViewDrop ==
  /\ view.page = "open"
  /\ view.join = "joined"
  /\ view.link \in {"first", "again"}
  /\ rooms' = [rooms EXCEPT ![ViewSocket] = {}]
  /\ view' = [view EXCEPT !.link = "down"]
  /\ UNCHANGED <<tasks, req, activities, inbox, nreq, lpos, boardRows>>

\* socket.io-client reconnects by itself: io.on("connection") runs for a
\* new server socket, which is in no room; the page has no handler for
\* "connect", so nothing is emitted and nothing is fetched
ViewReconnect ==
  /\ view.link = "down"
  /\ view' = [view EXCEPT !.link = "again"]
  /\ UNCHANGED <<tasks, req, activities, rooms, inbox, nreq, lpos, boardRows>>

NextReconnect ==
  \/ ViewOpen
  \/ GetBoard
  \/ FetchDone
  \/ JoinTimer
  \/ JoinServe
  \/ Receive
  \/ ViewDrop
  \/ ViewReconnect
  \/ OtherDeleteStart
  \/ ViewDeleteRow
  \/ ViewDeleteActivity
  \/ ViewDeleteEmit

SpecReconnect == InitView /\ [][NextReconnect]_vars

\* the tab has no fetch, no board:join and no event waiting to be handled
TabSettled ==
  /\ view.page = "open"
  /\ view.fetch = "none"
  /\ view.join = "joined"
  /\ view.handled = Len(inbox[ViewSocket])

\* C28: once the tab's connection was lost and re-established and the tab
\* has nothing more in flight, it is subscribed again: an event published
\* for the open board is delivered to the tab's socket
C28_ResubscribedAfterReconnect ==
  [][\A r \in Slots :
       (/\ Emits(r)
        /\ req[r].boardId = StoreBoard
        /\ view.link = "again"
        /\ TabSettled)
       => /\ Len(inbox'[ViewSocket]) = Len(inbox[ViewSocket]) + 1
          /\ inbox'[ViewSocket][Len(inbox'[ViewSocket])].req = req[r].id
    ]_vars

\* ------------------------------------------------- lists reordered elsewhere
\* a tab that has fetched board B1 and joined its room, while clients send
\* PUT /lists/reorder
InitReorder ==
  /\ tasks \in {Placed(a) : a \in [Tasks -> StoreLists \cup {NoList}]}
  /\ rooms = [s \in Sockets |-> IF s = ViewSocket THEN {StoreBoard} ELSE {}]
  /\ InitServer
  /\ \E ls \in Snapshots(tasks, lpos, StoreBoard) :
       view = [ClosedView EXCEPT !.page = "open", !.loaded = TRUE,
                                 !.lists = ls, !.join = "joined"]

NextReorder ==
  \/ ListsPutReorder
  \/ Receive

SpecReorder == InitReorder /\ [][NextReorder]_vars

\* the ids of the lists in display order
ListOrder(ls) == [i \in 1..Len(ls) |-> ls[i].id]

\* C29: when the tab handles a LISTS_REORDERED event whose ids are the ids
\* of its lists, its lists are afterwards in the order of the event
C29_ReorderEventApplied ==
  [][(/\ view.handled < Len(inbox[ViewSocket])
      /\ view'.handled = view.handled + 1
      /\ view.loaded
      /\ Arriving.type = "LISTS_REORDERED"
      /\ Len(Arriving.tasks) = Len(view.lists)
      /\ Range(Arriving.tasks) = Range(ListOrder(view.lists)))
     => ListOrder(view'.lists) = Arriving.tasks]_vars

\* ------------------------------------------------- the life of a local move
\* the tab alone on the board, before its socket has joined the room; any
\* database call of the move handler may reject; the request reaches the
\* server, the server runs the handler to its answer and the continuations
\* of the awaits run
PendDbError == DbError(ViewSlot)

NextPending ==
  \/ ViewOpen
  \/ GetBoard
  \/ FetchDone
  \/ Drag
  \/ MoveSend
  \/ MoveResponse
  \/ ConcMoveShift
  \/ ConcMoveUpdate
  \/ ConcMoveFindSource
  \/ ConcMoveReindex
  \/ ConcMoveActivity
  \/ ConcMoveEmit
  \/ PendDbError

SpecPending ==
  /\ InitView
  /\ [][NextPending]_vars
  /\ WF_vars(GetBoard)
  /\ WF_vars(FetchDone)
  /\ WF_vars(MoveSend)
  /\ WF_vars(ConcMoveShift)
  /\ WF_vars(ConcMoveUpdate)
  /\ WF_vars(ConcMoveFindSource)
  /\ WF_vars(ConcMoveReindex)
  /\ WF_vars(ConcMoveActivity)
  /\ WF_vars(ConcMoveEmit)
  /\ WF_vars(MoveResponse)

\* the optimistic move is applied and its request has no answer yet
Pending == view.drag \in {"applied", "sent"}

Confirmed == view.drag = "confirmed"

\* the request failed and fetchBoard was called
RefetchIssued == view.drag \in {"rejected", "reverted"}

\* the steps of a local move
PendingStep ==
  /\ (view.drag # "applied" /\ view'.drag = "applied")
     => /\ view.drag \in {"idle", "confirmed", "reverted"}
        /\ req' = req
        /\ nreq' = nreq
        /\ \E a \in LocalTasks(view.lists) :
             /\ a.id = view'.dragged
             /\ view'.lists = moveTaskLocal(view.lists, a.id, a.listId,
                                            view'.to, view'.pos)
  /\ req'[ViewSlot].id # req[ViewSlot].id
     => /\ view.drag = "applied"
        /\ view'.drag = "sent"
        /\ req'[ViewSlot].taskId = view.dragged
        /\ req'[ViewSlot].targetListId = view.to
        /\ req'[ViewSlot].position = view.pos
  /\ (view.drag = "applied" /\ view'.drag # "applied")
     => view'.drag = "sent"
  /\ (view.drag = "sent" /\ view'.drag # "sent")
     => /\ req[ViewSlot].pc = "done"
        /\ IF req[ViewSlot].status = 200
           THEN /\ view'.drag = "confirmed"
                /\ view.fetch = "none"
                /\ view'.fetch = "none"
           ELSE /\ view'.drag = "rejected"
                /\ view'.fetch = "sent"
  /\ (view.drag = "rejected" /\ view'.drag # "rejected")
     => view'.drag = "reverted"
  /\ (view.drag \in {"idle", "confirmed", "reverted"} /\ view'.drag # view.drag)
     => view'.drag = "applied"

\* C30: a local move is applied to the lists before its request is issued;
\* the answer to the request ends it either confirmed, for a success and
\* without a fetch, or with a re-fetch of the board, for a failure; and
\* when every request is answered no move stays applied without an end
C30_PendingMoveLifecycle ==
  /\ Pending ~> (Confirmed \/ RefetchIssued)
  /\ [][PendingStep]_vars

\* a move that changed the local lists was answered 500 and the re-fetch
\* has completed
C30_Witness ==
  /\ view.drag = "reverted"
  /\ req[ViewSlot].status = 500
  /\ req[ViewSlot].committed

\* ------------------------------------------------- the frame of a move
\* C31: while a move is handled and after it has completed (one request at
\* a time), every task that was in a list other than the move's source list
\* and target list, on the same board or on another one, has the listId and
\* the position it had before the request
C31_MoveFrame ==
  LET q == req[SeqSlot] IN
  (q.kind = "move" /\ q.status # 404)
  => \A x \in Tasks :
       q.pre[x].listId \notin {q.fromListId, q.targetListId}
       => tasks[x] = q.pre[x]

\* a completed move has changed positions, and a task of a third list that
\* was at a position at or after the move's index is where it was
C31_Witness ==
  LET q == req[SeqSlot] IN
  /\ MoveDone(SeqSlot)
  /\ tasks # q.pre
  /\ \E x \in Tasks :
       /\ Exists(q.pre, x)
       /\ q.pre[x].listId \notin {q.fromListId, q.targetListId}
       /\ q.pre[x].position >= q.position
       /\ tasks[x] = q.pre[x]

\* ------------------------------------------------- two creates in flight
\* two POST requests without a position in the body, each in its own slot;
\* their database calls interleave in any order
InitCreateConc ==
  /\ tasks \in {Placed(a) : a \in [Tasks -> ConcLists \cup {NoList}]}
  /\ rooms = [s \in Sockets |-> {"B1"}]
  /\ InitCommon

ConcCreateStart ==
  \E r \in Slots, l \in ConcLists :
    /\ req[r].pc = "idle"
    /\ CreateStart(r, FALSE, "alice", "B1", l, NoPos)

ConcCreateLast == \E r \in Slots : CreateLast(r)
ConcCreateInsert == \E r \in Slots : CreateInsert(r)
ConcCreateActivity == \E r \in Slots : CreateActivity(r)
ConcCreateEmit == \E r \in Slots : CreateEmit(r)

NextCreateConc ==
  \/ ConcCreateStart
  \/ ConcCreateLast
  \/ ConcCreateInsert
  \/ ConcCreateActivity
  \/ ConcCreateEmit

SpecCreateConc == InitCreateConc /\ [][NextCreateConc]_vars

\* C32: when two creates without a position for the same list have both
\* completed, whatever the interleaving of their reads and inserts, the two
\* new tasks have different positions and the positions of the list are
\* 0..n-1
C32_ConcurrentAppends ==
  LET a == req["r1"]
      b == req["r2"]
      l == a.targetListId
  IN  (/\ a.kind = "create" /\ a.pc = "done" /\ a.status = 201
       /\ b.kind = "create" /\ b.pc = "done" /\ b.status = 201
       /\ b.targetListId = l)
      => /\ tasks[a.taskId].position # tasks[b.taskId].position
         /\ Dense(tasks, l)

\* ------------------------------------------------- who is in a room
\* io.use: the user of the token of the handshake is attached to the socket;
\* s1 is a connection of alice, s2 of bob
socketUser(s) == IF s = "s1" THEN "alice" ELSE "bob"

\* C33: every event a socket has received was published for a board whose
\* owner or member the socket's user is
C33_EventsOnlyToMembers ==
  \A s \in Sockets :
    \A i \in 1..Len(inbox[s]) :
      socketUser(s) \in boardUsers(inbox[s][i].boardId)

\* ------------------------------------------------- a request and its board
\* a list request for board b of the path by user u
ListRequest(u, b) ==
  \/ \E p \in ListPositions : ListCreate(u, b, p)
  \/ \E l \in Lists, p \in ListPositions : ListPatch(u, b, l, p)
  \/ \E l \in Lists : ListDelete(u, b, l)
  \/ \E ids \in ListIdSeqs : ListsReorder(u, b, ids)

\* C34: a list create, update, delete or reorder request for board b leaves
\* the position of every list of another board, and every task of a list of
\* another board, as it was
C34_RequestStaysInItsBoard ==
  [][\A u \in Users, b \in Boards :
       ListRequest(u, b)
       => /\ \A l \in Lists : listBoard(l) # b => lpos'[l] = lpos[l]
          /\ \A t \in Tasks :
               (Exists(tasks, t) /\ listBoard(tasks[t].listId) # b)
               => tasks'[t] = tasks[t]
    ]_vars

\* ------------------------------------------------- from one board to another
\* the tab shows board B2, fetched and joined, and the route changes to
\* board B1; the other clients go on changing B2
LeftBoard == "B2"

\* view.leave: "sent" when board:leave of the left board is emitted, "done"
\* when the server has handled it

\* BoardPage useEffect on a new boardId: the cleanup emits board:leave for
\* the old board, takes the handlers off and clears the timer; the effect
\* calls fetchBoard for the new board, starts a new timer and registers the
\* handlers again. activeBoard stays the old board until the fetch is done
ViewSwitch ==
  /\ view.page = "open"
  /\ view.leave = "none"
  /\ view.join = "joined"
  /\ view.fetch = "none"
  /\ view' = [view EXCEPT !.leave = "sent", !.fetch = "sent", !.join = "timer"]
  /\ UNCHANGED <<tasks, req, activities, rooms, inbox, nreq, lpos, boardRows>>

\* the server handles board:leave of the tab's socket
LeaveServe ==
  /\ view.leave = "sent"
  /\ rooms' = [rooms EXCEPT ![ViewSocket] = @ \ {LeftBoard}]
  /\ view' = [view EXCEPT !.leave = "done"]
  /\ UNCHANGED <<tasks, req, activities, inbox, nreq, lpos, boardRows>>

\* the requests of the other clients of the left board
LeftMoveStart ==
  \E t \in Tasks, p \in Positions :
    MoveStart(OtherSlot, TRUE, ViewUser, LeftBoard, t, "Archive", p)

LeftListCreate ==
  /\ \A q \in Slots : ~Busy(q)
  /\ \E p \in ListPositions : ListCreate(ViewUser, LeftBoard, p)

LeftListPatch ==
  /\ \A q \in Slots : ~Busy(q)
  /\ \E p \in ListPositions : ListPatch(ViewUser, LeftBoard, "Archive", p)

LeftListDelete ==
  /\ \A q \in Slots : ~Busy(q)
  /\ ListDelete(ViewUser, LeftBoard, "Archive")

\* B1 has Backlog and Done with T1 and T3; B2 has the list Archive, with or
\* without T2, or no list; the tab shows B2 and its socket is in B2's room
InitSwitch ==
  /\ lpos \in {InitLists, [InitLists EXCEPT !["Archive"] = NoPos]}
  /\ tasks \in {Placed(a) : a \in {x \in [Tasks -> Lists \cup {NoList}] :
                  /\ x["T1"] = "Backlog" /\ x["T3"] = "Backlog"
                  /\ x["T2"] \in {"Archive", NoList}
                  /\ x["T2"] = "Archive" => lpos["Archive"] # NoPos}}
  /\ rooms = [s \in Sockets |-> IF s = ViewSocket THEN {LeftBoard} ELSE {}]
  /\ req = [r \in Slots |-> IdleReq]
  /\ activities = 0
  /\ inbox = [s \in Sockets |-> << >>]
  /\ nreq = 0
  /\ boardRows = InitBoards
  /\ \E ls \in Snapshots(tasks, lpos, LeftBoard) :
       view = [ClosedView EXCEPT !.page = "open", !.loaded = TRUE,
                                 !.lists = ls, !.join = "joined"]

NextSwitch ==
  \/ ViewSwitch
  \/ LeaveServe
  \/ GetBoard
  \/ FetchDone
  \/ JoinTimer
  \/ JoinServe
  \/ Receive
  \/ LeftMoveStart
  \/ ConcMoveShift
  \/ ConcMoveUpdate
  \/ ConcMoveFindSource
  \/ ConcMoveReindex
  \/ ConcMoveActivity
  \/ ConcMoveEmit
  \/ LeftListCreate
  \/ LeftListPatch
  \/ LeftListDelete

SpecSwitch == InitSwitch /\ [][NextSwitch]_vars

\* the tab has left the other board and the fetch of board B1 is done:
\* activeBoard is B1
ShowsStoreBoard == view.leave # "none" /\ view.fetch = "none" /\ view.loaded

\* C35: when the tab has switched to board B1 and shows it, the handling of
\* an event that was published for another board leaves the lists and tasks
\* of the tab as they are
C35_ForeignEventIgnored ==
  [][(/\ view.handled < Len(inbox[ViewSocket])
      /\ view'.handled = view.handled + 1
      /\ ShowsStoreBoard
      /\ Arriving.boardId # StoreBoard)
     => view'.lists = view.lists]_vars

\* ------------------------------------------------- a re-fetch and newer events
\* the tab has fetched board B1 and joined its room; a database call of its
\* move request may reject, which makes handleDragEnd call fetchBoard, while
\* another client deletes tasks
InitRefetch ==
  /\ tasks \in {Placed(a) : a \in ViewPlacements}
  /\ rooms = [s \in Sockets |-> IF s = ViewSocket THEN {StoreBoard} ELSE {}]
  /\ InitServer
  /\ \E ls \in Snapshots(tasks, lpos, StoreBoard) :
       view = [ClosedView EXCEPT !.page = "open", !.loaded = TRUE,
                                 !.lists = ls, !.join = "joined"]

NextRefetch ==
  \/ Drag
  \/ MoveSend
  \/ MoveResponse
  \/ ConcMoveShift
  \/ ConcMoveUpdate
  \/ ConcMoveFindSource
  \/ ConcMoveReindex
  \/ ConcMoveActivity
  \/ ConcMoveEmit
  \/ PendDbError
  \/ GetBoard
  \/ FetchDone
  \/ Receive
  \/ OtherDeleteStart
  \/ ViewDeleteRow
  \/ ViewDeleteActivity
  \/ ViewDeleteEmit

SpecRefetch == InitRefetch /\ [][NextRefetch]_vars

\* the events the tab has handled that were published by requests the
\* server received after it had read the board for the fetch in flight
NewerHandled ==
  {inbox[ViewSocket][i] : i \in {k \in 1..view.handled :
                                   inbox[ViewSocket][k].req > view.snap}}

\* C36: when the response of a re-fetch replaces the lists, every event the
\* tab handled during the fetch for a request newer than the snapshot of the
\* fetch still shows in the lists: handling it again would change nothing
C36_RefetchKeepsNewerEvents ==
  [][(view.fetch = "resp" /\ view'.fetch = "none" /\ view.loaded)
     => \A e \in NewerHandled : onEvent(view'.lists, e) = view'.lists]_vars

\* C37: after the tab has handled a TASK_DELETED event for a task, the task
\* is in none of its lists, also when the tab had moved it to a list other
\* than the one the event names
C37_DeletedTaskGone ==
  [][(/\ view.handled < Len(inbox[ViewSocket])
      /\ view'.handled = view.handled + 1
      /\ view.loaded
      /\ Arriving.type = "TASK_DELETED")
     => Places(view'.lists, Arriving.taskId) = {}]_vars

\* ------------------------------------------------- moveTaskLocal on its own
\* the number of task objects with id t over all lists
IdCount(ls, t) ==
  Cardinality({pl \in (1..Len(ls)) \X (1..(2 * Cardinality(Tasks))) :
                 /\ pl[2] <= Len(ls[pl[1]].tasks)
                 /\ ls[pl[1]].tasks[pl[2]].id = t})

\* the arguments handleDragEnd may pass: overIndex is -1 when the task
\* dropped on is not in the target list
LocalPositions == (0 - 1)..MaxPos

\* C38: in every state of the store and for every taskId, fromListId,
\* toListId and newPosition: when both lists are there and the task is in
\* the source list, after moveTaskLocal every task id occurs as often as
\* before, the task is in the list toListId and in no other, and the tasks
\* of the source and of the target list have the positions 0..n-1 of their
\* places; otherwise the lists are unchanged
C38_MoveTaskLocalConserves ==
  \A t \in Tasks, f \in Lists, l \in Lists, p \in LocalPositions :
    LET ls  == view.lists
        out == moveTaskLocal(ls, t, f, l, p)
        si  == FindIdx(ls, f)
        ti  == FindIdx(ls, l)
    IN  IF si # 0 /\ ti # 0 /\ FindIdx(ls[si].tasks, t) # 0
        THEN /\ Len(out) = Len(ls)
             /\ \A x \in Tasks : IdCount(out, x) = IdCount(ls, x)
             /\ \A i \in 1..Len(out) :
                  /\ out[i].id = ls[i].id
                  /\ (FindIdx(out[i].tasks, t) # 0) <=> (out[i].id = l)
                  /\ out[i].id \in {f, l}
                     => \A k \in 1..Len(out[i].tasks) :
                          out[i].tasks[k].position = k - 1
        ELSE out = ls

====
